---- MODULE Spec2Model ----
(***************************************************************************)
(* A model of pyodoo_connector: the Command encoder (pyodoo_connect/       *)
(* tools.py), the session OdooAPI with its model handles and records       *)
(* (pyodoo_connect/odoo.py) and the record proxies with their method       *)
(* callers (pyodoo_connect/proxies.py).                                    *)
(*                                                                         *)
(* A Python dict is a TLA+ function whose domain is the set of its keys;   *)
(* a Python object that can be shared by reference (a context dict, a      *)
(* value cache, a loaded set) lives in a heap and is named by its index.   *)
(***************************************************************************)
EXTENDS Integers, Sequences, FiniteSets, TLC

VARIABLES
    cmd_call,     \* the last Command classmethod called and its arguments
    cmd_result,   \* the triple it returned
    heap,         \* the shared mutable objects (dicts and sets), by reference
    handles,      \* the OdooModel handles the caller holds
    recs,         \* the record proxies the caller holds
    field_cache,  \* OdooRecord._field_cache: model name -> set of field names
    last,         \* the last operation: its arguments, the payloads sent, its outcome
    session_id,   \* OdooAPI.session_id
    last_validation,  \* OdooAPI._last_validation
    now,          \* time.time()
    frame,        \* where the session operation in progress stands
    xlog,         \* the HTTP exchanges of the session operation in progress
    done,         \* the session operation that ended last, and how
    has_TimeoutError  \* whether the installed httpx has an attribute TimeoutError

cmdVars == <<cmd_call, cmd_result>>
objVars == <<handles, recs, field_cache, last>>
sessVars == <<session_id, last_validation, now, frame, xlog, done, has_TimeoutError>>

vars == <<cmd_call, cmd_result, heap, handles, recs, field_cache, last,
          session_id, last_validation, now, frame, xlog, done, has_TimeoutError>>

\* Python's None
None == "None"

(***************************************************************************)
(* Python dicts                                                            *)
(***************************************************************************)
EmptyDict == [k \in {} |-> 0]

\* dict.update(e): keys of e overwrite, the other keys are kept (one level)
DictUpdate(d, e) ==
    [k \in (DOMAIN d) \cup (DOMAIN e) |-> IF k \in DOMAIN e THEN e[k] ELSE d[k]]

\* every dict with keys among K and values in V
DictsOver(K, V) == UNION {[S -> V] : S \in SUBSET K}

(***************************************************************************)
(* Command encoder: tools.py                                               *)
(***************************************************************************)
CREATE == 0
UPDATE == 1
DELETE == 2
UNLINK == 3
LINK == 4
CLEAR == 5
SET == 6

Command_create(values) == <<CREATE, 0, values>>

Command_update(id, values) == <<UPDATE, id, values>>

Command_delete_swapped(id) == <<UNLINK, id, 0>>

Command_delete(id) == <<DELETE, id, 0>>

Command_unlink(id) == <<UNLINK, id, 0>>

Command_link(id) == <<LINK, id, 0>>

Command_clear == <<CLEAR, 0, 0>>

Command_set(ids) == <<SET, 0, ids>>

\* bounds of the inputs the encoder is applied to
MaxCmdId == 4
MaxIdListLen == 3

CmdFieldNames == {"name", "ref"}
CmdFieldValues == {"x", "y"}
CmdValues == DictsOver(CmdFieldNames, CmdFieldValues)
CmdIds == 0..MaxCmdId
CmdIdLists == UNION {[1..n -> 1..3] : n \in 0..MaxIdListLen}

NoCall == [op |-> "none"]

\* the parts of the state a specification does not use
NoObjects ==
    /\ handles = <<>>
    /\ recs = <<>>
    /\ field_cache = EmptyDict
    /\ last = [op |-> "none"]

NoSession ==
    /\ session_id = None
    /\ last_validation = 0
    /\ now = 0
    /\ frame = [stage |-> "idle"]
    /\ xlog = <<>>
    /\ done = [op |-> "none"]
    /\ has_TimeoutError = FALSE

InitCommand ==
    /\ cmd_call = NoCall
    /\ cmd_result = <<>>
    /\ heap = <<>>
    /\ NoObjects
    /\ NoSession

CallCreate ==
    \E v \in CmdValues :
        /\ cmd_call' = [op |-> "create", values |-> v]
        /\ cmd_result' = Command_create(v)
        /\ UNCHANGED <<heap, objVars, sessVars>>

CallUpdate ==
    \E i \in CmdIds, v \in CmdValues :
        /\ cmd_call' = [op |-> "update", id |-> i, values |-> v]
        /\ cmd_result' = Command_update(i, v)
        /\ UNCHANGED <<heap, objVars, sessVars>>

CallDelete ==
    \E i \in CmdIds :
        /\ cmd_call' = [op |-> "delete", id |-> i]
        /\ cmd_result' = Command_delete(i)
        /\ UNCHANGED <<heap, objVars, sessVars>>

CallUnlink ==
    \E i \in CmdIds :
        /\ cmd_call' = [op |-> "unlink", id |-> i]
        /\ cmd_result' = Command_unlink(i)
        /\ UNCHANGED <<heap, objVars, sessVars>>

CallLink ==
    \E i \in CmdIds :
        /\ cmd_call' = [op |-> "link", id |-> i]
        /\ cmd_result' = Command_link(i)
        /\ UNCHANGED <<heap, objVars, sessVars>>

CallClear ==
    /\ cmd_call' = [op |-> "clear"]
    /\ cmd_result' = Command_clear
    /\ UNCHANGED <<heap, objVars, sessVars>>

CallSet ==
    \E l \in CmdIdLists :
        /\ cmd_call' = [op |-> "set", ids |-> l]
        /\ cmd_result' = Command_set(l)
        /\ UNCHANGED <<heap, objVars, sessVars>>

NextCommand ==
    \/ CallCreate
    \/ CallUpdate
    \/ CallDelete
    \/ CallUnlink
    \/ CallLink
    \/ CallClear
    \/ CallSet

SpecCommand == InitCommand /\ [][NextCommand]_vars

(***************************************************************************)
(* The session's default context and the transport seen from a handle:     *)
(* odoo.py, OdooAPI                                                        *)
(***************************************************************************)
\* the heap index of OdooAPI.context, allocated by OdooAPI.__init__
API_CONTEXT == 1

\* OdooAPI.__init__: the default context
DefaultContext == [lang |-> "en_US", tz |-> "Asia/Riyadh", uid |-> None]

\* the uid the server reports for this user
ServerUid == "uid2"

\* a fresh object on the heap: the heap after the allocation, and its reference
Alloc(h, obj) == [heap |-> Append(h, obj), ref |-> Len(h) + 1]

\* what the caller of OdooAPI._make_request observes of one call
Replies == {"result", "noresult", "auth_error", "request_error"}

RESULT_VALUE == "r1"

\* OdooAPI._make_request as a handle sees it.  validate_session and connect
\* may store the server's uid in self.context in place (u); unless the session
\* could not be established, payload["params"]["kwargs"]["context"] is then
\* REPLACED by self.context and the payload is posted.
MakeRequest(h, payload, reply, u, result) ==
    IF reply = "auth_error"
    THEN [heap |-> h, sent |-> <<>>,
          out |-> [kind |-> "raise", error |-> "OdooAuthenticationError"]]
    ELSE LET h1 == [h EXCEPT ![API_CONTEXT] = [@ EXCEPT !["uid"] = u]]
             wire == [payload EXCEPT !.kwargs =
                         DictUpdate(@, [k \in {"context"} |-> h1[API_CONTEXT]])]
         IN [heap |-> h1, sent |-> <<wire>>,
             out |-> CASE reply = "result" ->
                            [kind |-> "response", has_result |-> TRUE, result |-> result]
                       [] reply = "noresult" ->
                            [kind |-> "response", has_result |-> FALSE, result |-> None]
                       [] reply = "request_error" ->
                            [kind |-> "raise", error |-> "OdooRequestError"]]

\* the uids validate_session / connect can leave in self.context
UidsAfter(h) == {h[API_CONTEXT]["uid"], ServerUid}

(***************************************************************************)
(* Model handles: odoo.py, OdooModel                                       *)
(***************************************************************************)
Models == {"res.partner", "res.users"}

\* the context overrides callers pass
Overrides ==
    {EmptyDict,
     [k \in {"lang"} |-> "fr_FR"],
     [k \in {"tz"} |-> "UTC"],
     [k \in {"lang", "tz"} |-> IF k = "lang" THEN "fr_FR" ELSE "UTC"]}

\* the first positional argument of with_context: absent, a dict, or not a dict
NoArg == [kind |-> "none"]
PosArgs == {NoArg, [kind |-> "int"]} \cup {[kind |-> "dict", d |-> o] : o \in Overrides}

\* `context or api.context.copy()` of OdooModel.__init__ and OdooRecord.__init__:
\* the reference given, unless it is None or names an empty dict
ContextOrDefault(h, ref) ==
    IF ref # 0 /\ DOMAIN h[ref] # {}
    THEN [heap |-> h, ref |-> ref]
    ELSE Alloc(h, h[API_CONTEXT])

\* OdooAPI.env: OdooModel(self, model)
OdooAPI_env(h) == ContextOrDefault(h, 0)

\* a with_context that updates the handle's own dict instead of a copy
OdooModel_with_context_inplace(h, ctx, posarg, kwargs) ==
    LET d == IF posarg.kind = "dict" THEN posarg.d ELSE EmptyDict
        h1 == [h EXCEPT ![ctx] = DictUpdate(DictUpdate(@, d), kwargs)]
    IN ContextOrDefault(h1, ctx)

\* OdooModel.with_context(*args, **kwargs) on the handle whose context is ctx
OdooModel_with_context(h, ctx, posarg, kwargs) ==
    LET a == Alloc(h, h[ctx])                                  \* self._context.copy()
        h1 == IF posarg.kind = "dict"
              THEN [a.heap EXCEPT ![a.ref] = DictUpdate(@, posarg.d)]
              ELSE a.heap
        h2 == [h1 EXCEPT ![a.ref] = DictUpdate(@, kwargs)]
    IN ContextOrDefault(h2, a.ref)

\* the kwargs of a generic call: with or without a call-site context
CallKwargs == {EmptyDict} \cup {[k \in {"context"} |-> c] : c \in Overrides}

\* OdooModel.__getattr__(name)(*args, **kwargs): the payload handed to _make_request
\* (context is the value of self._context)
OdooModel_method_payload(model, context, name, args, kwargs) ==
    LET kw == IF "context" \in DOMAIN kwargs
              THEN DictUpdate(kwargs,
                     [k \in {"context"} |-> DictUpdate(context, kwargs["context"])])
              ELSE DictUpdate(kwargs, [k \in {"context"} |-> context])
    IN [model |-> model, method |-> name, args |-> args, kwargs |-> kw]

\* response.get("result", False) if response else False
ResultOrFalse(out) ==
    IF out.kind = "raise" THEN out
    ELSE [kind |-> "return", value |-> IF out.has_result THEN out.result ELSE FALSE]

MaxHandles == 2

InitHandle ==
    /\ cmd_call = NoCall
    /\ cmd_result = <<>>
    /\ heap = <<DefaultContext>>
    /\ NoObjects
    /\ NoSession

\* handle = api.env(model)
Env ==
    /\ Len(handles) < MaxHandles
    /\ \E m \in Models :
       LET r == OdooAPI_env(heap)
       IN /\ heap' = r.heap
          /\ handles' = Append(handles,
                [model |-> m, context |-> r.ref, parent |-> 0,
                 born |-> r.heap[r.ref], overrides |-> EmptyDict])
          /\ last' = [op |-> "env", new |-> Len(handles) + 1]
          /\ UNCHANGED <<cmdVars, recs, field_cache, sessVars>>

\* new = handles[i].with_context(posarg, **kwargs)
WithContext ==
    /\ Len(handles) < MaxHandles
    /\ \E i \in 1..Len(handles), posarg \in PosArgs, kwargs \in Overrides :
         LET r == OdooModel_with_context(heap, handles[i].context, posarg, kwargs)
             given == DictUpdate(IF posarg.kind = "dict" THEN posarg.d ELSE EmptyDict,
                                 kwargs)
         IN /\ heap' = r.heap
            /\ handles' = Append(handles,
                  [model |-> handles[i].model, context |-> r.ref, parent |-> i,
                   born |-> r.heap[r.ref],
                   overrides |-> DictUpdate(handles[i].overrides, given)])
            /\ last' = [op |-> "with_context", handle |-> i, new |-> Len(handles) + 1,
                        posarg |-> posarg, kwargs |-> kwargs,
                        handle_before |-> heap[handles[i].context],
                        api_before |-> heap[API_CONTEXT]]
            /\ UNCHANGED <<cmdVars, recs, field_cache, sessVars>>

\* handles[i].some_method(**kwargs): a generic remote method call
GenericCall ==
    \E i \in 1..Len(handles), kwargs \in CallKwargs, reply \in Replies,
       u \in UidsAfter(heap) :
         LET payload == OdooModel_method_payload(handles[i].model,
                                heap[handles[i].context], "some_method", <<>>, kwargs)
             r == MakeRequest(heap, payload, reply, u, RESULT_VALUE)
         IN /\ heap' = r.heap
            /\ handles' = handles
            /\ last' = [op |-> "call", handle |-> i, kwargs |-> kwargs,
                        sent |-> r.sent, out |-> ResultOrFalse(r.out)]
            /\ UNCHANGED <<cmdVars, recs, field_cache, sessVars>>

NextHandle ==
    \/ Env
    \/ WithContext
    \/ GenericCall

SpecHandle == InitHandle /\ [][NextHandle]_vars

\* the context of handle i, as the heap holds it now
HandleContext(i) == heap[handles[i].context]

(***************************************************************************)
(* Records: what both record classes share                                 *)
(***************************************************************************)
\* the fields the server's model has, the values they take, the record ids
Fields == {"name"}
FieldValues == {"Acme", "Acme Corp"}
RecordIds == {7}
RECORD_MODEL == "res.partner"

\* attribute names that are not fields of the model
MethodNames == {"write", "action_archive"}

\* positional and keyword arguments of calls
DictArg(d) == [kind |-> "dict", d |-> d]
IntArg == [kind |-> "int"]
ValueDicts == {[k \in {"name"} |-> v] : v \in FieldValues}

\* the contexts callers put on records
RecordOverrides == {EmptyDict, [k \in {"lang"} |-> "fr_FR"]}

\* the rows a server answers a one-field read of record id with
ReadRows(id, name) ==
    {<<>>, <<[k \in {"id"} |-> id]>>}
      \cup {<<[k \in {"id", name} |-> IF k = "id" THEN id ELSE v]>> : v \in FieldValues}

Rpc(method, args, kwargs) == [method |-> method, args |-> args, kwargs |-> kwargs]

Value(v) == [kind |-> "value", value |-> v]
Callable == [kind |-> "callable"]
Raise(e) == [kind |-> "raise", error |-> e]
Return(v) == [kind |-> "return", value |-> v]

\* dict.get(k, None)
DictGet(d, k) == IF k \in DOMAIN d THEN d[k] ELSE None

(***************************************************************************)
(* proxies.py: ModelProxy over Odoo.call / Odoo.execute_function.  One     *)
(* JSON-RPC call answers with a result ("ok"), with a reply that has no    *)
(* result key (json_rpc returns None), or raises.                          *)
(***************************************************************************)
RpcReplies == {"ok", "none", "raise"}

\* a fetch_field that reads the whole record (an empty list of fields)
RecordProxy_fetch_field_whole_record(h, rec, name, fg, rd, rows) ==
    LET rpc1 == Rpc("fields_get", <<<<name>>, <<"name", "type">>>>, EmptyDict)
        rpc2 == Rpc("read", <<<<rec.id>>, <<>>>>, EmptyDict)
    IN CASE fg = "raise" -> [heap |-> h, rpcs |-> <<rpc1>>, out |-> Raise("RpcError")]
         [] fg = "none"  -> [heap |-> h, rpcs |-> <<rpc1>>, out |-> Raise("TypeError")]
         [] fg = "ok" /\ name \notin Fields ->
              [heap |-> h, rpcs |-> <<rpc1>>, out |-> Raise("KeyError")]
         [] fg = "ok" /\ name \in Fields /\ rd = "raise" ->
              [heap |-> h, rpcs |-> <<rpc1, rpc2>>, out |-> Raise("RpcError")]
         [] fg = "ok" /\ name \in Fields /\ rd = "ok" /\ rows # <<>> ->
              [heap |-> [h EXCEPT ![rec.values] = DictUpdate(@, rows[1]),
                                  ![rec.loaded] = @ \cup {name}],
               rpcs |-> <<rpc1, rpc2>>, out |-> Return(None)]
         [] OTHER -> [heap |-> h, rpcs |-> <<rpc1, rpc2>>, out |-> Return(None)]

\* RecordProxy.fetch_field(field_name) on the proxy rec
RecordProxy_fetch_field(h, rec, name, fg, rd, rows) ==
    LET rpc1 == Rpc("fields_get", <<<<name>>, <<"name", "type">>>>, EmptyDict)
        rpc2 == Rpc("read", <<<<rec.id>>, <<name>>>>, EmptyDict)
    IN CASE fg = "raise" -> [heap |-> h, rpcs |-> <<rpc1>>, out |-> Raise("RpcError")]
         [] fg = "none"  -> [heap |-> h, rpcs |-> <<rpc1>>, out |-> Raise("TypeError")]
         [] fg = "ok" /\ name \notin Fields ->
              [heap |-> h, rpcs |-> <<rpc1>>, out |-> Raise("KeyError")]
         [] fg = "ok" /\ name \in Fields /\ rd = "raise" ->
              [heap |-> h, rpcs |-> <<rpc1, rpc2>>, out |-> Raise("RpcError")]
         [] fg = "ok" /\ name \in Fields /\ rd = "ok" /\ rows # <<>> ->
              [heap |-> [h EXCEPT ![rec.values] = DictUpdate(@, rows[1]),
                                  ![rec.loaded] = @ \cup {name}],
               rpcs |-> <<rpc1, rpc2>>, out |-> Return(None)]
         [] OTHER -> [heap |-> h, rpcs |-> <<rpc1, rpc2>>, out |-> Return(None)]

\* a __getattr__ that does not look into the value cache
RecordProxy_getattr_uncached(h, rec, name, fg, rd, rows) ==
    IF name \notin h[rec.loaded]
    THEN LET f == RecordProxy_fetch_field(h, rec, name, fg, rd, rows)
         IN CASE f.out.kind = "return" ->
                   [heap |-> f.heap, rpcs |-> f.rpcs,
                    out |-> Value(DictGet(f.heap[rec.values], name))]
              [] f.out = Raise("KeyError") ->
                   [heap |-> f.heap, rpcs |-> f.rpcs, out |-> Callable]
              [] OTHER -> f
    ELSE [heap |-> h, rpcs |-> <<>>, out |-> Callable]

\* RecordProxy.__getattr__(name)
RecordProxy_getattr(h, rec, name, fg, rd, rows) ==
    IF name \in DOMAIN h[rec.values]
    THEN [heap |-> h, rpcs |-> <<>>, out |-> Value(h[rec.values][name])]
    ELSE IF name \notin h[rec.loaded]
    THEN LET f == RecordProxy_fetch_field(h, rec, name, fg, rd, rows)
         IN CASE f.out.kind = "return" ->
                   [heap |-> f.heap, rpcs |-> f.rpcs,
                    out |-> Value(DictGet(f.heap[rec.values], name))]
              [] f.out = Raise("KeyError") ->
                   [heap |-> f.heap, rpcs |-> f.rpcs, out |-> Callable]
              [] OTHER -> f
    ELSE [heap |-> h, rpcs |-> <<>>, out |-> Callable]

\* a __setattr__ that forgets the local cache
RecordProxy_setattr_nocache(h, rec, name, value, reply) ==
    LET rpc == Rpc("write", <<<<rec.id>>, [k \in {name} |-> value]>>, EmptyDict)
    IN IF reply = "raise"
       THEN [heap |-> h, rpcs |-> <<rpc>>, out |-> Raise("RpcError")]
       ELSE [heap |-> h, rpcs |-> <<rpc>>, out |-> Return(None)]

\* RecordProxy.__setattr__(name, value), name not an attribute of the proxy itself
RecordProxy_setattr(h, rec, name, value, reply) ==
    LET rpc == Rpc("write", <<<<rec.id>>, [k \in {name} |-> value]>>, EmptyDict)
    IN IF reply = "raise"
       THEN [heap |-> h, rpcs |-> <<rpc>>, out |-> Raise("RpcError")]
       ELSE [heap |-> [h EXCEPT ![rec.values] = DictUpdate(@, [k \in {name} |-> value])],
             rpcs |-> <<rpc>>, out |-> Return(None)]

\* a call that forwards the caller's kwargs next to the positional dictionary
MethodCaller_call_keep_kwargs(h, rec, name, args, kwargs, reply) ==
    LET method == IF name = "write" THEN "update" ELSE name
        kw0 == IF args # <<>> /\ args[1].kind = "dict"
               THEN DictUpdate(kwargs, [k \in {"values"} |-> args[1].d])
               ELSE kwargs
        kw == IF DOMAIN h[rec.context] # {}
              THEN DictUpdate(kw0, [k \in {"context"} |-> h[rec.context]])
              ELSE kw0
        rpc == Rpc(method, <<<<rec.id>>>>, kw)
    IN IF args # <<>> /\ args[1].kind # "dict"
       THEN [heap |-> h, rpcs |-> <<>>, out |-> Raise("ValueError")]
       ELSE [heap |-> h, rpcs |-> <<rpc>>,
             out |-> CASE reply = "ok" -> Return(RESULT_VALUE)
                       [] reply = "none" -> Return(None)
                       [] reply = "raise" -> Raise("RpcError")]

\* MethodCaller.__call__(*args, **kwargs) of the caller RecordProxy.__getattr__
\* made for `name`: Odoo.execute_function(model, [record_id], method, **kwargs)
MethodCaller_call(h, rec, name, args, kwargs, reply) ==
    LET method == IF name = "write" THEN "update" ELSE name
        kw0 == IF args # <<>> /\ args[1].kind = "dict"
               THEN [k \in {"values"} |-> args[1].d]
               ELSE kwargs
        kw == IF DOMAIN h[rec.context] # {}
              THEN DictUpdate(kw0, [k \in {"context"} |-> h[rec.context]])
              ELSE kw0
        rpc == Rpc(method, <<<<rec.id>>>>, kw)
    IN IF args # <<>> /\ args[1].kind # "dict"
       THEN [heap |-> h, rpcs |-> <<>>, out |-> Raise("ValueError")]
       ELSE [heap |-> h, rpcs |-> <<rpc>>,
             out |-> CASE reply = "ok" -> Return(RESULT_VALUE)
                       [] reply = "none" -> Return(None)
                       [] reply = "raise" -> Raise("RpcError")]

\* a with_context that hands its own caches to the new proxy
RecordProxy_with_context_shared(h, rec, posarg, kwargs) ==
    LET kw == IF posarg.kind = "dict" THEN posarg.d ELSE kwargs
        c == Alloc(h, DictUpdate(h[rec.context], kw))
    IN [heap |-> c.heap,
        rec |-> [cls |-> "RecordProxy", id |-> rec.id, values |-> rec.values,
                 loaded |-> rec.loaded, context |-> c.ref]]

\* RecordProxy.with_context(*args, **kwargs): a positional dict REPLACES the
\* keyword arguments; RecordProxy.__init__ gives the new proxy empty caches
RecordProxy_with_context(h, rec, posarg, kwargs) ==
    LET kw == IF posarg.kind = "dict" THEN posarg.d ELSE kwargs
        c == Alloc(h, DictUpdate(h[rec.context], kw))
        v == Alloc(c.heap, EmptyDict)
        l == Alloc(v.heap, {})
    IN [heap |-> l.heap,
        rec |-> [cls |-> "RecordProxy", id |-> rec.id, values |-> v.ref,
                 loaded |-> l.ref, context |-> c.ref]]

\* ModelProxy.browse(record_id): RecordProxy(self, record_id)
ModelProxy_browse(h, id) ==
    LET c == Alloc(h, EmptyDict)
        v == Alloc(c.heap, EmptyDict)
        l == Alloc(v.heap, {})
    IN [heap |-> l.heap,
        rec |-> [cls |-> "RecordProxy", id |-> id, values |-> v.ref,
                 loaded |-> l.ref, context |-> c.ref]]


(***************************************************************************)
(* odoo.py: OdooRecord over OdooModel and OdooAPI._make_request            *)
(***************************************************************************)
\* OdooModel.search_read(domain=[('id', '=', id)], fields=[name]): the payload
OdooModel_search_read_payload(model, id, name) ==
    [model |-> model, method |-> "search_read", args |-> <<<<<<"id", "=", id>>>>>>,
     kwargs |-> [fields |-> <<name>>, offset |-> 0, limit |-> None, order |-> None]]

\* OdooModel.write(ids, values): the payload
OdooModel_write_payload(model, ids, values) ==
    [model |-> model, method |-> "write", args |-> <<ids, values>>, kwargs |-> EmptyDict]

\* response.get("result", default) if response else default
ResultOr(out, default) == IF out.has_result THEN out.result ELSE default

\* Python truth of a write result (the server answers write with true or false)
Truthy(v) == v = TRUE

\* a constructor that records nothing when fields_get fails
OdooRecord_init_forgets_failure(h, fc, id, values, context, reply, u) ==
    LET v == Alloc(h, values)
        c == ContextOrDefault(v.heap, context)
        rec == [cls |-> "OdooRecord", id |-> id, values |-> v.ref, loaded |-> 0,
                context |-> c.ref]
        payload == OdooModel_method_payload(RECORD_MODEL, c.heap[API_CONTEXT],
                                            "fields_get", <<>>, EmptyDict)
        r == MakeRequest(c.heap, payload, reply, u, Fields)
    IN IF RECORD_MODEL \in DOMAIN fc
       THEN [heap |-> c.heap, fc |-> fc, rpcs |-> <<>>, built |-> TRUE, rec |-> rec,
             out |-> Return(None)]
       ELSE CASE r.out.kind = "raise" ->
                   [heap |-> r.heap, fc |-> fc,
                    rpcs |-> r.sent, built |-> FALSE,
                    rec |-> rec, out |-> Raise("OdooValidationError")]
              [] r.out.kind = "response" /\ ~r.out.has_result ->
                   [heap |-> r.heap, fc |-> fc, rpcs |-> r.sent, built |-> FALSE,
                    rec |-> rec, out |-> Raise("AttributeError")]
              [] OTHER ->
                   [heap |-> r.heap,
                    fc |-> DictUpdate(fc, [m \in {RECORD_MODEL} |-> r.out.result]),
                    rpcs |-> r.sent, built |-> TRUE, rec |-> rec, out |-> Return(None)]

\* OdooRecord.__init__: values or {}, context or api.context.copy(), and the
\* class-level field cache, fetched with fields_get when the model is not in it
OdooRecord_init(h, fc, id, values, context, reply, u) ==
    LET v == Alloc(h, values)
        c == ContextOrDefault(v.heap, context)
        rec == [cls |-> "OdooRecord", id |-> id, values |-> v.ref, loaded |-> 0,
                context |-> c.ref]
        payload == OdooModel_method_payload(RECORD_MODEL, c.heap[API_CONTEXT],
                                            "fields_get", <<>>, EmptyDict)
        r == MakeRequest(c.heap, payload, reply, u, Fields)
    IN IF RECORD_MODEL \in DOMAIN fc
       THEN [heap |-> c.heap, fc |-> fc, rpcs |-> <<>>, built |-> TRUE, rec |-> rec,
             out |-> Return(None)]
       ELSE CASE r.out.kind = "raise" ->
                   [heap |-> r.heap, fc |-> DictUpdate(fc, [m \in {RECORD_MODEL} |-> {}]),
                    rpcs |-> r.sent, built |-> FALSE,
                    rec |-> rec, out |-> Raise("OdooValidationError")]
              [] r.out.kind = "response" /\ ~r.out.has_result ->
                   [heap |-> r.heap, fc |-> fc, rpcs |-> r.sent, built |-> FALSE,
                    rec |-> rec, out |-> Raise("AttributeError")]
              [] OTHER ->
                   [heap |-> r.heap,
                    fc |-> DictUpdate(fc, [m \in {RECORD_MODEL} |-> r.out.result]),
                    rpcs |-> r.sent, built |-> TRUE, rec |-> rec, out |-> Return(None)]

\* OdooRecord.with_context(*args, **kwargs)
OdooRecord_with_context(h, fc, rec, posarg, kwargs, reply, u) ==
    LET d == IF posarg.kind = "dict" THEN posarg.d ELSE EmptyDict
        c == Alloc(h, DictUpdate(DictUpdate(h[rec.context], d), kwargs))
    IN OdooRecord_init(c.heap, fc, rec.id, c.heap[rec.values], c.ref, reply, u)

\* self._field_cache.get(model, set())
FieldCacheGet(fc, model) == IF model \in DOMAIN fc THEN fc[model] ELSE {}

\* the variant that caches None for a field the server sent no value of
OdooRecord_getattr_caches_none(h, fc, rec, name, reply, u, rows) ==
    LET payload == OdooModel_search_read_payload(RECORD_MODEL, rec.id, name)
        r == MakeRequest(h, payload, reply, u, rows)
        record == IF r.out.kind = "response" THEN ResultOr(r.out, <<>>) ELSE <<>>
    IN IF name \in DOMAIN h[rec.values]
       THEN [heap |-> h, rpcs |-> <<>>, out |-> Value(h[rec.values][name])]
       ELSE IF name \in FieldCacheGet(fc, RECORD_MODEL)
       THEN CASE r.out.kind = "raise" ->
                   [heap |-> r.heap, rpcs |-> r.sent, out |-> Raise("OdooRequestError")]
              [] record # <<>> /\ name \in DOMAIN record[1] ->
                   [heap |-> [r.heap EXCEPT ![rec.values] = DictUpdate(@, record[1])],
                    rpcs |-> r.sent, out |-> Value(record[1][name])]
              [] OTHER ->
                   [heap |-> [r.heap EXCEPT ![rec.values] =
                                 DictUpdate(@, [k \in {name} |-> None])],
                    rpcs |-> r.sent, out |-> Value(None)]
       ELSE [heap |-> h, rpcs |-> <<>>, out |-> Callable]

\* OdooRecord.__getattr__(name)
OdooRecord_getattr(h, fc, rec, name, reply, u, rows) ==
    LET payload == OdooModel_search_read_payload(RECORD_MODEL, rec.id, name)
        r == MakeRequest(h, payload, reply, u, rows)
        record == IF r.out.kind = "response" THEN ResultOr(r.out, <<>>) ELSE <<>>
    IN IF name \in DOMAIN h[rec.values]
       THEN [heap |-> h, rpcs |-> <<>>, out |-> Value(h[rec.values][name])]
       ELSE IF name \in FieldCacheGet(fc, RECORD_MODEL)
       THEN CASE r.out.kind = "raise" ->
                   [heap |-> r.heap, rpcs |-> r.sent, out |-> Raise("OdooRequestError")]
              [] record # <<>> /\ name \in DOMAIN record[1] ->
                   [heap |-> [r.heap EXCEPT ![rec.values] = DictUpdate(@, record[1])],
                    rpcs |-> r.sent, out |-> Value(record[1][name])]
              [] OTHER -> [heap |-> r.heap, rpcs |-> r.sent, out |-> Callable]
       ELSE [heap |-> h, rpcs |-> <<>>, out |-> Callable]

\* OdooRecord.__setattr__(name, value), name not starting with "_"
OdooRecord_setattr(h, rec, name, value, reply, u, result) ==
    LET r == MakeRequest(h, OdooModel_write_payload(RECORD_MODEL, <<rec.id>>,
                                [k \in {name} |-> value]), reply, u, result)
    IN IF r.out.kind = "response" /\ Truthy(ResultOr(r.out, FALSE))
       THEN [heap |-> [r.heap EXCEPT ![rec.values] =
                           DictUpdate(@, [k \in {name} |-> value])],
             rpcs |-> r.sent, out |-> Return(None)]
       ELSE [heap |-> r.heap, rpcs |-> r.sent, out |-> Raise("OdooRequestError")]

\* OdooRecord.write(values)
OdooRecord_write(h, rec, values, reply, u, result) ==
    LET r == MakeRequest(h, OdooModel_write_payload(RECORD_MODEL, <<rec.id>>, values),
                         reply, u, result)
        res == ResultOr(r.out, FALSE)
    IN IF r.out.kind = "raise"
       THEN [heap |-> r.heap, rpcs |-> r.sent, out |-> r.out]
       ELSE IF Truthy(res)
       THEN [heap |-> [r.heap EXCEPT ![rec.values] = DictUpdate(@, values)],
             rpcs |-> r.sent, out |-> Return(res)]
       ELSE [heap |-> r.heap, rpcs |-> r.sent, out |-> Return(res)]

\* the callable OdooRecord.__getattr__ returns for `name`, called
OdooRecord_method_call(h, rec, name, args, kwargs, reply, u) ==
    LET payload == [OdooModel_method_payload(RECORD_MODEL, h[rec.context], name,
                                             <<>>, kwargs)
                      EXCEPT !.args = <<<<rec.id>>>> \o args]
        r == MakeRequest(h, payload, reply, u, RESULT_VALUE)
    IN IF r.out.kind = "raise"
       THEN [heap |-> r.heap, rpcs |-> r.sent, out |-> Raise("OdooRequestError")]
       ELSE [heap |-> r.heap, rpcs |-> r.sent, out |-> Return(ResultOr(r.out, FALSE))]


(***************************************************************************)
(* The caller of the record proxies                                        *)
(***************************************************************************)
MaxRecs == 2

CallArgs ==
    {<<>>, <<IntArg>>, <<IntArg, IntArg>>, <<DictArg([k \in {"name"} |-> "Acme"]), IntArg>>}
      \cup {<<DictArg(d)>> : d \in ValueDicts}

CallSiteKwargs == {EmptyDict, [k \in {"context"} |-> [c \in {"tz"} |-> "UTC"]]}

\* what a record proxy holds, read through its references
ViewOf(h, rec) ==
    [values |-> h[rec.values],
     loaded |-> IF rec.loaded = 0 THEN {} ELSE h[rec.loaded],
     context |-> h[rec.context]]

\* the views of every proxy but i
OtherViews(i) == [j \in (1..Len(recs)) \ {i} |-> ViewOf(heap, recs[j])]

\* the caller runs one statement at a time
Ready == last.op = "none"

\* the statement that has just returned was a read, an attribute write or a
\* write of `name` on proxy i
Returned(i, name) ==
    /\ last.op \in {"read", "set", "write"}
    /\ last.out.kind # "raise"
    /\ last.rec = i
    /\ name \in (IF last.op = "write" THEN DOMAIN last.values ELSE {last.name})

\* what a read of `name` on proxy i follows
Follows(i, name) ==
    IF ~Ready /\ Returned(i, name)
    THEN CASE last.op = "read" ->
                [op |-> "read", out |-> last.out, rpcs |-> Len(last.rpcs),
                 cached |-> last.cached]
           [] last.op = "set" ->
                [op |-> "set", value |-> last.value]
           [] last.op = "write" ->
                [op |-> "write", value |-> last.values[name], ok |-> last.ok]
    ELSE [op |-> "other"]

\* the session is connected: connect() stored the server's uid in the context
InitRecords ==
    /\ cmd_call = NoCall
    /\ cmd_result = <<>>
    /\ heap = <<[DefaultContext EXCEPT !["uid"] = ServerUid]>>
    /\ NoObjects
    /\ NoSession

\* The server answers the RPCs that are made, and no others: the answers an
\* operation can meet, given what it will ask.
NoRows == <<>>

ProxyReadAnswers(rec, name) ==
    IF name \in DOMAIN heap[rec.values] \/ name \in heap[rec.loaded]
    THEN {[fg |-> "ok", rd |-> "ok", rows |-> NoRows]}
    ELSE {[fg |-> x, rd |-> "ok", rows |-> NoRows] : x \in {"raise", "none"}}
      \cup (IF name \notin Fields
            THEN {[fg |-> "ok", rd |-> "ok", rows |-> NoRows]}
            ELSE {[fg |-> "ok", rd |-> x, rows |-> NoRows] : x \in {"raise", "none"}}
              \cup {[fg |-> "ok", rd |-> "ok", rows |-> r] : r \in ReadRows(rec.id, name)})

RecordReadAnswers(rec, name) ==
    IF name \in DOMAIN heap[rec.values] \/ name \notin FieldCacheGet(field_cache, RECORD_MODEL)
    THEN {[reply |-> "result", rows |-> NoRows]}
    ELSE {[reply |-> x, rows |-> NoRows] : x \in Replies \ {"result"}}
      \cup {[reply |-> "result", rows |-> r] : r \in ReadRows(rec.id, name)}

InitAnswers ==
    IF RECORD_MODEL \in DOMAIN field_cache THEN {"result"} ELSE Replies

WriteAnswers ==
    {[reply |-> x, result |-> FALSE] : x \in Replies \ {"result"}}
      \cup {[reply |-> "result", result |-> b] : b \in BOOLEAN}

\* a program uses one of the two libraries: proxies.py or odoo.py
UsesProxies ==
    /\ field_cache = EmptyDict
    /\ \A i \in 1..Len(recs) : recs[i].cls = "RecordProxy"
UsesRecords == \A i \in 1..Len(recs) : recs[i].cls = "OdooRecord"

\* p = ModelProxy(odoo, model).browse(id)
BrowseProxy ==
    /\ Ready
    /\ Len(recs) < MaxRecs
    /\ UsesProxies
    /\ \E id \in RecordIds :
         LET b == ModelProxy_browse(heap, id)
         IN /\ heap' = b.heap
            /\ recs' = Append(recs, b.rec @@ [parent |-> 0])
            /\ last' = [op |-> "browse", rec |-> Len(recs) + 1, rpcs |-> <<>>,
                        out |-> Return(None), before |-> OtherViews(0)]
            /\ UNCHANGED <<cmdVars, handles, field_cache, sessVars>>

\* r = api.env(model).browse(id): OdooModel.browse hands the record the
\* context of the handle env() made
BrowseRecord ==
    /\ Ready
    /\ Len(recs) < MaxRecs
    /\ UsesRecords
    /\ \E id \in RecordIds, reply \in InitAnswers :
         LET e == OdooAPI_env(heap)
             n == OdooRecord_init(e.heap, field_cache, id, EmptyDict, e.ref, reply,
                                  ServerUid)
         IN /\ heap' = IF n.built THEN n.heap ELSE heap
            /\ field_cache' = n.fc
            /\ recs' = IF n.built THEN Append(recs, n.rec @@ [parent |-> 0]) ELSE recs
            /\ last' = [op |-> "browse", rec |-> IF n.built THEN Len(recs) + 1 ELSE 0,
                        rpcs |-> n.rpcs, out |-> n.out, before |-> OtherViews(0)]
            /\ UNCHANGED <<cmdVars, handles, sessVars>>

WithContextArgs == {NoArg} \cup {DictArg(o) : o \in RecordOverrides}

\* q = recs[i].with_context(posarg, **kwargs) on a RecordProxy
ProxyWithContext ==
    /\ Ready
    /\ Len(recs) < MaxRecs
    /\ \E i \in 1..Len(recs), kwargs \in RecordOverrides, posarg \in WithContextArgs :
         /\ recs[i].cls = "RecordProxy"
         /\ LET w == RecordProxy_with_context(heap, recs[i], posarg, kwargs)
            IN /\ heap' = w.heap
               /\ recs' = Append(recs, w.rec @@ [parent |-> i])
               /\ last' = [op |-> "with_context", rec |-> i, new |-> Len(recs) + 1,
                           posarg |-> posarg, kwargs |-> kwargs,
                           rpcs |-> <<>>, out |-> Return(None),
                           before |-> OtherViews(0)]
               /\ UNCHANGED <<cmdVars, handles, field_cache, sessVars>>

\* q = recs[i].with_context(posarg, **kwargs) on an OdooRecord
RecordWithContext ==
    /\ Ready
    /\ Len(recs) < MaxRecs
    /\ \E i \in 1..Len(recs), kwargs \in RecordOverrides, posarg \in WithContextArgs,
          reply \in InitAnswers :
         /\ recs[i].cls = "OdooRecord"
         /\ LET w == OdooRecord_with_context(heap, field_cache, recs[i], posarg,
                                             kwargs, reply, ServerUid)
            IN /\ heap' = IF w.built THEN w.heap ELSE heap
               /\ field_cache' = w.fc
               /\ recs' = IF w.built THEN Append(recs, w.rec @@ [parent |-> i]) ELSE recs
               /\ last' = [op |-> "with_context", rec |-> i,
                           new |-> IF w.built THEN Len(recs) + 1 ELSE 0,
                           posarg |-> posarg, kwargs |-> kwargs,
                           rpcs |-> w.rpcs, out |-> w.out, before |-> OtherViews(0)]
               /\ UNCHANGED <<cmdVars, handles, sessVars>>

\* the names the caller reads
ReadNames == Fields \cup {"action_archive"}

\* recs[i].name on a RecordProxy, as the next statement or right after the
\* statement that returned
ProxyRead ==
    \E i \in 1..Len(recs), name \in ReadNames :
         /\ Ready \/ Returned(i, name)
         /\ recs[i].cls = "RecordProxy"
         /\ \E a \in ProxyReadAnswers(recs[i], name) :
              /\ LET g == RecordProxy_getattr(heap, recs[i], name, a.fg, a.rd, a.rows)
                 IN /\ heap' = g.heap
                    /\ last' = [op |-> "read", rec |-> i, name |-> name, rpcs |-> g.rpcs,
                                out |-> g.out, follows |-> Follows(i, name),
                                cached |-> name \in DOMAIN g.heap[recs[i].values],
                                before |-> OtherViews(i)]
                    /\ UNCHANGED <<cmdVars, handles, recs, field_cache, sessVars>>

\* recs[i].name on an OdooRecord, as the next statement or right after the
\* statement that returned
RecordRead ==
    \E i \in 1..Len(recs), name \in ReadNames :
         /\ Ready \/ Returned(i, name)
         /\ recs[i].cls = "OdooRecord"
         /\ \E a \in RecordReadAnswers(recs[i], name) :
              /\ LET g == OdooRecord_getattr(heap, field_cache, recs[i], name, a.reply,
                                             ServerUid, a.rows)
                 IN /\ heap' = g.heap
                    /\ last' = [op |-> "read", rec |-> i, name |-> name, rpcs |-> g.rpcs,
                                out |-> g.out, follows |-> Follows(i, name),
                                cached |-> name \in DOMAIN g.heap[recs[i].values],
                                before |-> OtherViews(i), answer |-> a]
                    /\ UNCHANGED <<cmdVars, handles, recs, field_cache, sessVars>>

\* recs[i].name = value on a RecordProxy
ProxySet ==
    /\ Ready
    /\ \E i \in 1..Len(recs), name \in Fields, value \in FieldValues, reply \in RpcReplies :
         /\ recs[i].cls = "RecordProxy"
         /\ LET w == RecordProxy_setattr(heap, recs[i], name, value, reply)
            IN /\ heap' = w.heap
               /\ last' = [op |-> "set", rec |-> i, name |-> name, value |-> value,
                           rpcs |-> w.rpcs, out |-> w.out, before |-> OtherViews(i),
                           failed |-> reply # "ok"]
               /\ UNCHANGED <<cmdVars, handles, recs, field_cache, sessVars>>

\* recs[i].name = value on an OdooRecord
RecordSet ==
    /\ Ready
    /\ \E i \in 1..Len(recs), name \in Fields, value \in FieldValues, a \in WriteAnswers :
         /\ recs[i].cls = "OdooRecord"
         /\ LET w == OdooRecord_setattr(heap, recs[i], name, value, a.reply,
                                        ServerUid, a.result)
            IN /\ heap' = w.heap
               /\ last' = [op |-> "set", rec |-> i, name |-> name, value |-> value,
                           rpcs |-> w.rpcs, out |-> w.out, before |-> OtherViews(i),
                           failed |-> ~(a.reply = "result" /\ Truthy(a.result))]
               /\ UNCHANGED <<cmdVars, handles, recs, field_cache, sessVars>>

\* recs[i].write(values) on an OdooRecord
RecordWrite ==
    /\ Ready
    /\ \E i \in 1..Len(recs), values \in ValueDicts, a \in WriteAnswers :
         /\ recs[i].cls = "OdooRecord"
         /\ LET w == OdooRecord_write(heap, recs[i], values, a.reply, ServerUid, a.result)
            IN /\ heap' = w.heap
               /\ last' = [op |-> "write", rec |-> i, values |-> values,
                           rpcs |-> w.rpcs, out |-> w.out,
                           ok |-> w.out.kind = "return" /\ Truthy(w.out.value),
                           before |-> OtherViews(i)]
               /\ UNCHANGED <<cmdVars, handles, recs, field_cache, sessVars>>

\* the answers to the lookup and to the call of recs[i].name(*args)
ProxyCallAnswers(rec, name, args) ==
    LET fgs == ProxyReadAnswers(rec, name)
    IN {[fg |-> a.fg, reply |-> "ok"] : a \in {x \in fgs : x.fg # "ok"}}
         \cup (IF args # <<>> /\ args[1].kind # "dict"
               THEN {[fg |-> "ok", reply |-> "ok"]}
               ELSE {[fg |-> "ok", reply |-> x] : x \in RpcReplies})

\* recs[i].name(*args, **kwargs) on a RecordProxy: the attribute lookup, then
\* the call of the MethodCaller it returned
ProxyCall ==
    /\ Ready
    /\ \E i \in 1..Len(recs), name \in MethodNames, args \in CallArgs,
       kwargs \in CallSiteKwargs :
         /\ recs[i].cls = "RecordProxy"
         /\ \E a \in ProxyCallAnswers(recs[i], name, args) :
              /\ LET g == RecordProxy_getattr(heap, recs[i], name, a.fg, "ok", NoRows)
                     c == MethodCaller_call(g.heap, recs[i], name, args, kwargs, a.reply)
                     called == g.out.kind = "callable"
                 IN /\ heap' = IF called THEN c.heap ELSE g.heap
                    /\ last' = [op |-> "call", rec |-> i, name |-> name, args |-> args,
                                kwargs |-> kwargs, lookup |-> Len(g.rpcs),
                                called |-> called, reply |-> a.reply,
                                rpcs |-> IF called THEN g.rpcs \o c.rpcs ELSE g.rpcs,
                                out |-> IF called THEN c.out ELSE g.out,
                                before |-> OtherViews(i)]
                    /\ UNCHANGED <<cmdVars, handles, recs, field_cache, sessVars>>

\* recs[i].name(*args, **kwargs) on an OdooRecord, name none of its own methods
RecordCall ==
    /\ Ready
    /\ \E i \in 1..Len(recs), name \in MethodNames \ {"write"}, args \in CallArgs,
       kwargs \in CallSiteKwargs, reply \in Replies :
         /\ recs[i].cls = "OdooRecord"
         /\ LET g == OdooRecord_getattr(heap, field_cache, recs[i], name, "result",
                                        ServerUid, NoRows)
                c == OdooRecord_method_call(g.heap, recs[i], name, args, kwargs, reply,
                                            ServerUid)
                called == g.out.kind = "callable"
            IN /\ heap' = IF called THEN c.heap ELSE g.heap
               /\ last' = [op |-> "call", rec |-> i, name |-> name, args |-> args,
                           kwargs |-> kwargs, lookup |-> Len(g.rpcs),
                           called |-> called, reply |-> reply,
                           rpcs |-> IF called THEN g.rpcs \o c.rpcs ELSE g.rpcs,
                           out |-> IF called THEN c.out ELSE g.out,
                           before |-> OtherViews(i)]
               /\ UNCHANGED <<cmdVars, handles, recs, field_cache, sessVars>>

\* recs[i].write(values) on a RecordProxy: the attribute lookup finds no
\* method of the proxy, and the MethodCaller it returned is called
ProxyWrite ==
    /\ Ready
    /\ \E i \in 1..Len(recs), values \in ValueDicts :
         /\ recs[i].cls = "RecordProxy"
         /\ \E a \in ProxyCallAnswers(recs[i], "write", <<DictArg(values)>>) :
              LET g == RecordProxy_getattr(heap, recs[i], "write", a.fg, "ok", NoRows)
                  c == MethodCaller_call(g.heap, recs[i], "write", <<DictArg(values)>>,
                                         EmptyDict, a.reply)
                  called == g.out.kind = "callable"
              IN /\ heap' = IF called THEN c.heap ELSE g.heap
                 /\ last' = [op |-> "write", rec |-> i, values |-> values,
                             lookup |-> Len(g.rpcs),
                             rpcs |-> IF called THEN g.rpcs \o c.rpcs ELSE g.rpcs,
                             out |-> IF called THEN c.out ELSE g.out,
                             ok |-> called /\ c.out = Return(RESULT_VALUE),
                             before |-> OtherViews(i)]
                 /\ UNCHANGED <<cmdVars, handles, recs, field_cache, sessVars>>

\* the statement is over and the caller goes on to another one
NextStatement ==
    /\ ~Ready
    /\ last' = [op |-> "none"]
    /\ UNCHANGED <<cmdVars, heap, handles, recs, field_cache, sessVars>>

Next ==
    \/ BrowseProxy
    \/ BrowseRecord
    \/ ProxyWithContext
    \/ RecordWithContext
    \/ ProxyRead
    \/ RecordRead
    \/ ProxySet
    \/ RecordSet
    \/ ProxyWrite
    \/ RecordWrite
    \/ NextStatement

Spec == InitRecords /\ [][Next]_vars

\* the callers that call methods on their proxies
NextCall ==
    \/ BrowseProxy
    \/ BrowseRecord
    \/ ProxyWithContext
    \/ RecordWithContext
    \/ ProxyCall
    \/ RecordCall
    \/ NextStatement

SpecCall == InitRecords /\ [][NextCall]_vars

(***************************************************************************)
(* odoo.py: the OdooAPI session.  validate_session, connect and            *)
(* _make_request run up to their next exchange with the server; the        *)
(* server's reply resumes them.  frame.at is the place the running call    *)
(* is at:                                                                  *)
(*   "vs"    validate_session called by the user                           *)
(*   "cn"    connect called by the user                                    *)
(*   "mr"    _make_request: its own validate_session, its first post       *)
(*   "mr_cn" the connect of _make_request before the post                  *)
(*   "re_cn" the connect of "Attempt to reconnect once"                    *)
(*   "re"    the second post                                               *)
(***************************************************************************)
validation_interval == 60

MaxTicks == 3

OldSession == "s1"
NewSession == "s2"

Idle == [stage |-> "idle"]
NoDone == [op |-> "none"]
Await(stage, at, t) == [stage |-> stage, at |-> at, t |-> t]
Finished(op, out) == [frame |-> Idle, done |-> [op |-> op, out |-> out]]
Goes(stage, at, t) == [frame |-> Await(stage, at, t), done |-> NoDone]

\* the except clauses of _make_request: `except httpx.TimeoutError` is looked
\* up when an exception arrives; a build of httpx without that name raises
\* AttributeError there, one with it goes on to the clauses below
Caught(error) == IF has_TimeoutError THEN Raise(error) ELSE Raise("AttributeError")

\* connect() whose result the head of _make_request does not look at
AfterConnect_posts_anyway(at, ok) ==
    CASE at = "cn" -> Finished("connect", Return(ok))
      [] at = "mr_cn" -> Goes("post", "mr", 0)
      [] at = "re_cn" ->
           IF ok THEN Goes("post", "re", 0)
           ELSE Finished("make_request", Caught("OdooRequestError"))

\* connect() returned ok to the place it was called from
AfterConnect(at, ok) ==
    CASE at = "cn" -> Finished("connect", Return(ok))
      [] at = "mr_cn" ->
           IF ok THEN Goes("post", "mr", 0)
           ELSE Finished("make_request", Raise("OdooAuthenticationError"))
      [] at = "re_cn" ->
           IF ok THEN Goes("post", "re", 0)
           ELSE Finished("make_request", Caught("OdooRequestError"))

\* an exception that validate_session() or connect() does not catch leaves
\* the call it was made from: the calls at the head of _make_request are
\* outside its try, those of the reconnect are inside
Propagates(at, error) ==
    CASE at = "vs" -> Finished("validate_session", Raise(error))
      [] at = "cn" -> Finished("connect", Raise(error))
      [] at = "re_cn" -> Finished("make_request", Caught("OdooRequestError"))
      [] OTHER -> Finished("make_request", Raise(error))

\* validate_session() that asks the server whatever the validation time
ValidateEntry_always_pings(sid, lv, t) == IF sid = None THEN "false" ELSE "ping"

\* validate_session() up to its ping: it answers without the server within
\* the validation interval and when there is no session id
ValidateEntry(sid, lv, t) ==
    IF (t - lv) < validation_interval
    THEN (IF sid # None THEN "true" ELSE "false")
    ELSE IF sid = None THEN "false" ELSE "ping"

\* connect() under a lock of the session: no login while another thread's is
\* in flight
ConnectValidated_exclusive(at, b) ==
    IF b \/ (\E c \in DOMAIN frame : frame[c].stage = "login")
    THEN AfterConnect(at, TRUE)
    ELSE Goes("login", at, 0)

\* the validate_session() of connect() returned b
ConnectValidated(at, b) == IF b THEN AfterConnect(at, TRUE) ELSE Goes("login", at, 0)

\* connect(): `if self.session_id and self.validate_session(): return True`,
\* then the login
EnterConnect(at, sid, lv, t) ==
    IF sid = None
    THEN Goes("login", at, 0)
    ELSE LET v == ValidateEntry(sid, lv, t)
         IN IF v = "ping" THEN Goes("ping", at, t) ELSE ConnectValidated(at, v = "true")

\* validate_session() returned b to the place it was called from
AfterValidate(at, b, sid, lv, t) ==
    CASE at = "vs" -> Finished("validate_session", Return(b))
      [] at = "mr" -> IF b THEN Goes("post", "mr", 0) ELSE EnterConnect("mr_cn", sid, lv, t)
      [] OTHER -> ConnectValidated(at, b)

\* validate_session() called at "vs" or "mr"
EnterValidate(at, sid, lv, t) ==
    LET v == ValidateEntry(sid, lv, t)
    IN IF v = "ping" THEN Goes("ping", at, t) ELSE AfterValidate(at, v = "true", sid, lv, t)

\* _make_request: `if not self.session_id or not self.validate_session():
\* if not self.connect(): raise OdooAuthenticationError`
EnterMakeRequest(sid, lv, t) ==
    IF sid = None THEN EnterConnect("mr_cn", sid, lv, t) ELSE EnterValidate("mr", sid, lv, t)

PingReplies == {"uid", "no_uid", "bad_body", "non200", "http_error"}
LoginReplies == {"ok", "ok_no_cookie", "ok_no_uid", "no_result", "bad_body", "non200",
                 "http_error"}
PostReplies == {"ok", "json_error", "status_error", "other_status", "timeout", "http_error"}

\* the reply to the first post: raise_for_status, the JSON error, the result,
\* and for the other statuses "Attempt to reconnect once"
AfterPost(reply, sid, lv, t) ==
    CASE reply = "ok" -> Finished("make_request", Return("json_response"))
      [] reply = "json_error" -> Finished("make_request", Caught("OdooRequestError"))
      [] reply = "other_status" -> EnterConnect("re_cn", sid, lv, t)
      [] OTHER -> Finished("make_request", Caught("OdooConnectionError"))

\* a second post that is sent again until the server answers it with 200
AfterRepost_resends(reply) ==
    IF reply \in {"ok", "json_error"}
    THEN Finished("make_request", Return(IF reply = "ok" THEN "json_response"
                                                          ELSE "json_error"))
    ELSE Goes("post", "re", 0)

\* the reply to the second post: any 200 reply is returned as it is
AfterRepost(reply) ==
    CASE reply \in {"ok", "json_error"} ->
           Finished("make_request", Return(IF reply = "ok" THEN "json_response"
                                                             ELSE "json_error"))
      [] reply \in {"status_error", "other_status"} ->
           Finished("make_request", Caught("OdooRequestError"))
      [] OTHER -> Finished("make_request", Caught("OdooConnectionError"))


\* the session's uid is the uid entry of its context
SetUid(h, uid) == [h EXCEPT ![API_CONTEXT] = [@ EXCEPT !["uid"] = uid]]

\* an exchange with the server: what was asked, under which session id, the
\* reply and the uid the reply reports
Exchange(to, sid, reply, uid) == [to |-> to, sid |-> sid, reply |-> reply, uid |-> uid]

\* the uids the server may report
ServerUids == {ServerUid, "uid7"}
ReportedUids(reply) == IF reply \in {"uid", "ok", "ok_no_cookie"} THEN ServerUids ELSE {None}

\* the user_context of a session/authenticate result
ServerUserContext == [lang |-> "fr_FR", tz |-> "Europe/Paris"]

\* the reply to the ping: the transport raised, or a status and a body
PingResponse(reply, u) ==
    [raised |-> reply = "http_error",
     status_code |-> IF reply = "non200" THEN 401 ELSE 200,
     is_json |-> reply # "bad_body",
     uid |-> u]

\* the reply to the login: the transport raised, or a status, a body whose
\* result (when it has one) holds uid and user_context, and the cookie
LoginResponse(reply, u) ==
    [raised |-> reply = "http_error",
     status_code |-> IF reply = "non200" THEN 401 ELSE 200,
     is_json |-> reply # "bad_body",
     has_result |-> reply \in {"ok", "ok_no_cookie", "ok_no_uid"},
     uid |-> u,
     user_context |-> ServerUserContext,
     cookie |-> IF reply \in {"ok", "ok_no_uid"} THEN NewSession ELSE None]

\* validate_session from its try on: a 200 reply with a uid sets the context
\* uid and the validation time to the time the call read at its start
OdooAPI_validate_reply(h, lv, t, resp) ==
    CASE resp.raised -> [heap |-> h, last_validation |-> lv, out |-> Return(FALSE)]
      [] resp.status_code = 200 /\ ~resp.is_json ->
           [heap |-> h, last_validation |-> lv, out |-> Raise("JSONDecodeError")]
      [] resp.status_code = 200 /\ resp.uid # None ->
           [heap |-> SetUid(h, resp.uid), last_validation |-> t, out |-> Return(TRUE)]
      [] OTHER -> [heap |-> h, last_validation |-> lv, out |-> Return(FALSE)]

\* connect that leaves the context uid as it was
OdooAPI_connect_reply_keeps_uid(h, sid, resp) ==
    CASE resp.raised -> [heap |-> h, session_id |-> sid, out |-> Return(FALSE)]
      [] resp.status_code = 200 /\ ~resp.is_json ->
           [heap |-> h, session_id |-> sid, out |-> Raise("JSONDecodeError")]
      [] resp.status_code = 200 /\ resp.has_result ->
           [heap |-> h, session_id |-> resp.cookie, out |-> Return(TRUE)]
      [] OTHER -> [heap |-> h, session_id |-> sid, out |-> Return(FALSE)]

\* connect from its try on: a 200 reply with a result sets the session id to
\* the cookie and the context uid to the result's uid
OdooAPI_connect_reply(h, sid, resp) ==
    CASE resp.raised -> [heap |-> h, session_id |-> sid, out |-> Return(FALSE)]
      [] resp.status_code = 200 /\ ~resp.is_json ->
           [heap |-> h, session_id |-> sid, out |-> Raise("JSONDecodeError")]
      [] resp.status_code = 200 /\ resp.has_result ->
           [heap |-> SetUid(h, resp.uid), session_id |-> resp.cookie, out |-> Return(TRUE)]
      [] OTHER -> [heap |-> h, session_id |-> sid, out |-> Return(FALSE)]

\* odoo_connect and odoo_connector: the Odoo object over urllib.  Its session
\* is the opener of its last login, its uid the one its last login stored
ODOO == 1
Opener == "opener"
UsesOdoo == session_id = Opener

\* the error member of a failed authenticate reply
SERVER_ERROR == "Invalid credentials"
LoginFailed(error) == "Login failed: " \o error

OdooLoginReplies ==
    {"ok", "ok_no_uid", "no_result", "bad_body", "unauthorized", "http_error", "url_error"}

\* the reply to the login of the Odoo object: what session.open raised, or a
\* body whose result (when it has one) holds the uid, and the error otherwise
OdooLoginResponse(reply, u) ==
    [raised |-> CASE reply = "unauthorized" -> "HTTPError 401"
                  [] reply = "http_error" -> "HTTPError"
                  [] reply = "url_error" -> "URLError"
                  [] OTHER -> None,
     is_json |-> reply # "bad_body",
     has_result |-> reply \in {"ok", "ok_no_uid"},
     uid |-> u,
     error |-> SERVER_ERROR]

\* Odoo.login from its try on
Odoo_login(obj, resp) ==
    CASE resp.raised = "HTTPError 401" -> [obj |-> obj, out |-> Raise("Unauthorized")]
      [] resp.raised # None -> [obj |-> obj, out |-> Raise("ConnectionError")]
      [] ~resp.is_json -> [obj |-> obj, out |-> Raise("JSONDecodeError")]
      [] resp.has_result ->
           [obj |-> [obj EXCEPT !.uid = resp.uid],
            out |-> IF resp.uid = None THEN Raise("Failed to obtain user ID.")
                                       ELSE Return(None)]
      [] OTHER -> [obj |-> obj, out |-> Raise(LoginFailed(resp.error))]

\* OdooAPI(url, db, username, password, session_id): the credentials are
\* given, a session id may be; time.time() is past the first interval.
\* Odoo(url, db, username, password): the constructor has logged in
InitSession ==
    /\ cmd_call = NoCall
    /\ cmd_result = <<>>
    /\ \/ heap = <<DefaultContext>> /\ session_id \in {None, OldSession}
       \/ heap \in {<<[uid |-> u]>> : u \in ServerUids} /\ session_id = Opener
    /\ NoObjects
    /\ last_validation = 0
    /\ now = 2 * validation_interval
    /\ frame = Idle
    /\ xlog = <<>>
    /\ done = NoDone
    /\ has_TimeoutError \in BOOLEAN

\* the user of the session runs one call at a time
SessionReady == frame = Idle /\ done = NoDone

\* api.validate_session()
CallValidateSession ==
    /\ SessionReady
    /\ ~UsesOdoo
    /\ LET r == EnterValidate("vs", session_id, last_validation, now)
       IN frame' = r.frame /\ done' = r.done
    /\ UNCHANGED <<cmdVars, heap, objVars, session_id, last_validation, now, xlog,
                   has_TimeoutError>>

\* api.connect()
CallConnect ==
    /\ SessionReady
    /\ ~UsesOdoo
    /\ LET r == EnterConnect("cn", session_id, last_validation, now)
       IN frame' = r.frame /\ done' = r.done
    /\ UNCHANGED <<cmdVars, heap, objVars, session_id, last_validation, now, xlog,
                   has_TimeoutError>>

\* api._make_request(endpoint, payload)
CallMakeRequest ==
    /\ SessionReady
    /\ ~UsesOdoo
    /\ LET r == EnterMakeRequest(session_id, last_validation, now)
       IN frame' = r.frame /\ done' = r.done
    /\ UNCHANGED <<cmdVars, heap, objVars, session_id, last_validation, now, xlog,
                   has_TimeoutError>>

\* the reply to the ping of validate_session
PingReply ==
    /\ frame.stage = "ping"
    /\ \E reply \in PingReplies :
         \E u \in ReportedUids(reply) :
            LET v == OdooAPI_validate_reply(heap, last_validation, frame.t,
                                            PingResponse(reply, u))
                r == IF v.out.kind = "raise"
                     THEN Propagates(frame.at, v.out.error)
                     ELSE AfterValidate(frame.at, v.out.value, session_id,
                                        v.last_validation, now)
            IN /\ xlog' = Append(xlog, Exchange("ping", session_id, reply, u))
               /\ heap' = v.heap
               /\ last_validation' = v.last_validation
               /\ frame' = r.frame
               /\ done' = r.done
    /\ UNCHANGED <<cmdVars, objVars, session_id, now, has_TimeoutError>>

\* the reply to the login of connect
LoginReply ==
    /\ frame.stage = "login"
    /\ \E reply \in LoginReplies :
         \E u \in ReportedUids(reply) :
            LET c == OdooAPI_connect_reply(heap, session_id, LoginResponse(reply, u))
                r == IF c.out.kind = "raise"
                     THEN Propagates(frame.at, c.out.error)
                     ELSE AfterConnect(frame.at, c.out.value)
            IN /\ xlog' = Append(xlog, Exchange("login", None, reply, u))
               /\ session_id' = c.session_id
               /\ heap' = c.heap
               /\ frame' = r.frame
               /\ done' = r.done
    /\ UNCHANGED <<cmdVars, objVars, last_validation, now, has_TimeoutError>>

\* the reply to a post of the payload
PostReply ==
    /\ frame.stage = "post"
    /\ \E reply \in PostReplies :
         LET r == IF frame.at = "mr"
                  THEN AfterPost(reply, session_id, last_validation, now)
                  ELSE AfterRepost(reply)
         IN /\ xlog' = Append(xlog, Exchange("post", session_id, reply, None))
            /\ frame' = r.frame
            /\ done' = r.done
    /\ UNCHANGED <<cmdVars, heap, objVars, session_id, last_validation, now,
                   has_TimeoutError>>

\* odoo.login() and the reply to it
OdooLogin ==
    /\ SessionReady
    /\ UsesOdoo
    /\ \E reply \in OdooLoginReplies :
         \E u \in (IF reply = "ok" THEN ServerUids ELSE {None}) :
            LET r == Odoo_login(heap[ODOO], OdooLoginResponse(reply, u))
            IN /\ xlog' = <<Exchange("login", None, reply, u)>>
               /\ heap' = [heap EXCEPT ![ODOO] = r.obj]
               /\ done' = [op |-> "login", out |-> r.out]
    /\ session_id' = Opener
    /\ UNCHANGED <<cmdVars, objVars, last_validation, now, frame, has_TimeoutError>>

\* the call is over and its user goes on
SessionReturn ==
    /\ frame = Idle
    /\ done # NoDone
    /\ done' = NoDone
    /\ xlog' = <<>>
    /\ UNCHANGED <<cmdVars, heap, objVars, session_id, last_validation, now, frame,
                   has_TimeoutError>>

\* time passes, half a validation interval at a time
Tick ==
    /\ now < (2 * validation_interval) + MaxTicks * (validation_interval \div 2)
    /\ now' = now + (validation_interval \div 2)
    /\ UNCHANGED <<cmdVars, heap, objVars, session_id, last_validation, frame, xlog,
                   done, has_TimeoutError>>

NextSession ==
    \/ CallValidateSession
    \/ CallConnect
    \/ CallMakeRequest
    \/ PingReply
    \/ LoginReply
    \/ PostReply
    \/ OdooLogin
    \/ SessionReturn
    \/ Tick

SpecSession == InitSession /\ [][NextSession]_vars


\* every request of the client is answered or times out (httpx's default
\* timeout for the ping and the login, timeout=30 for the posts): a reply
\* that is awaited arrives
SpecSessionLive ==
    /\ SpecSession
    /\ WF_vars(PingReply)
    /\ WF_vars(LoginReply)
    /\ WF_vars(PostReply)



(***************************************************************************)
(* Model handles: the operations of OdooModel over OdooAPI._make_request   *)
(***************************************************************************)
\* JSON values of replies, with Python's truth of them
JInt(n) == [t |-> "int", n |-> n]
JBool(b) == [t |-> "bool", n |-> IF b THEN 1 ELSE 0]
JList(n) == [t |-> "list", n |-> n]
JNull == [t |-> "null", n |-> 0]
Falsy(j) == j.n = 0

\* the results a server puts in a reply, and the error member of a reply
JsonResults == {JInt(5), JInt(0), JBool(TRUE), JBool(FALSE), JList(0), JList(2), JNull}
SERVER_ERROR_OBJECT == [code |-> "200", message |-> "Odoo Server Error"]

\* an exception and the server error body it carries (OdooRequestError.response)
RaiseWith(e, response) == [kind |-> "raise", error |-> e, response |-> response]
NoResponse == [code |-> None, message |-> None]

\* a reply _make_request returns to its caller
Response(has_result, result, has_error) ==
    [kind |-> "response", has_result |-> has_result, result |-> result,
     has_error |-> has_error, error |-> IF has_error THEN SERVER_ERROR_OBJECT ELSE NoResponse]

OdooExceptions ==
    {"OdooConnectionError", "OdooAuthenticationError", "OdooRequestError",
     "OdooValidationError"}

\* the except clauses of _make_request, applied to an exception raised in its
\* try: `except httpx.TimeoutError` needs the name to exist; an httpx.HTTPError
\* becomes OdooConnectionError; anything else, the OdooRequestError raised for
\* a JSON error included, becomes a new OdooRequestError without a response
MakeRequest_except(x, hasTimeout) ==
    CASE ~hasTimeout -> RaiseWith("AttributeError", NoResponse)
      [] x.error \in {"HTTPStatusError", "TransportError"} ->
           RaiseWith("OdooConnectionError", NoResponse)
      [] OTHER -> RaiseWith("OdooRequestError", NoResponse)

\* what the server and the session make of one call of _make_request
RequestReplies ==
    {"result", "noresult", "json_error", "late_json_error", "status_error",
     "transport_error", "auth_error"}

\* OdooAPI._make_request with the error bodies: the heap and the wire are
\* those of MakeRequest; a reply with an error member raises inside the try,
\* unless it answers the second post, which is returned as it is
OdooAPI_make_request(h, payload, reply, u, result, hasTimeout) ==
    LET r == MakeRequest(h, payload,
                         IF reply = "auth_error" THEN "auth_error" ELSE "result", u, result)
    IN [heap |-> r.heap, sent |-> r.sent,
        out |-> CASE reply = "auth_error" ->
                       RaiseWith("OdooAuthenticationError", NoResponse)
                  [] reply = "result" -> Response(TRUE, result, FALSE)
                  [] reply = "noresult" -> Response(FALSE, JNull, FALSE)
                  [] reply = "late_json_error" -> Response(FALSE, JNull, TRUE)
                  [] reply = "json_error" ->
                       MakeRequest_except(RaiseWith("OdooRequestError", SERVER_ERROR_OBJECT),
                                          hasTimeout)
                  [] reply = "status_error" ->
                       MakeRequest_except(RaiseWith("HTTPStatusError", NoResponse),
                                          hasTimeout)
                  [] OTHER ->
                       MakeRequest_except(RaiseWith("TransportError", NoResponse),
                                          hasTimeout)]

\* OdooModel._handle_response on a reply (a JSON-RPC envelope, never empty)
OdooModel_handle_response(response) ==
    IF response.has_error
    THEN RaiseWith("OdooRequestError", response.error)
    ELSE Return(IF response.has_result THEN response.result ELSE JBool(FALSE))

\* `except OdooException as e: raise OdooRequestError(f"... failed: {str(e)}")`
\* of search and create
ExceptOdooException(x) ==
    IF x.error \in OdooExceptions THEN RaiseWith("OdooRequestError", NoResponse) ELSE x


\* OdooModel.create from the return of _make_request on
OdooModel_create(out) ==
    IF out.kind = "raise"
    THEN ExceptOdooException(out)
    ELSE LET result == OdooModel_handle_response(out)
         IN CASE result.kind = "raise" -> ExceptOdooException(result)
              [] Falsy(result.value) ->
                   ExceptOdooException(RaiseWith("OdooValidationError", NoResponse))
              [] OTHER -> Return(result.value)

\* OdooModel.search from the return of _make_request on
OdooModel_search(out) ==
    IF out.kind = "raise"
    THEN ExceptOdooException(out)
    ELSE LET result == OdooModel_handle_response(out)
         IN IF result.kind = "raise" THEN ExceptOdooException(result) ELSE result

\* a reply without a result taken for a failure
ResultOrDefault_strict(out, default) ==
    IF out.kind = "raise" THEN out
    ELSE IF out.has_result THEN Return(out.result)
    ELSE RaiseWith("OdooRequestError", NoResponse)

\* `response.get("result", default) if response else default` of write, unlink,
\* read, search_read and the generic method call
ResultOrDefault(out, default) ==
    IF out.kind = "raise" THEN out
    ELSE Return(IF out.has_result THEN out.result ELSE default)

OdooModel_write(out) == ResultOrDefault(out, JBool(FALSE))
OdooModel_unlink(out) == ResultOrDefault(out, JBool(FALSE))
OdooModel_read(out) == ResultOrDefault(out, JList(0))
OdooModel_search_read(out) == ResultOrDefault(out, JList(0))
OdooModel_method_call(out) == ResultOrDefault(out, JBool(FALSE))

\* the keyword arguments the operations put in their payloads
SearchKwargs == [offset |-> "0", limit |-> None, order |-> None]
ReadKwargs == [k \in {"fields"} |-> "name"]

\* api = OdooAPI(...): the session as the handles see it, on either build of httpx
InitModel ==
    /\ cmd_call = NoCall
    /\ cmd_result = <<>>
    /\ heap = <<DefaultContext>>
    /\ NoObjects
    /\ session_id = None
    /\ last_validation = 0
    /\ now = 0
    /\ frame = Idle
    /\ xlog = <<>>
    /\ done = NoDone
    /\ has_TimeoutError \in BOOLEAN

\* what the operation named op makes of what _make_request gave it
OdooModel_outcome(op, out) ==
    CASE op = "create" -> OdooModel_create(out)
      [] op = "search" -> OdooModel_search(out)
      [] op = "write" -> OdooModel_write(out)
      [] op = "unlink" -> OdooModel_unlink(out)
      [] op = "read" -> OdooModel_read(out)
      [] op = "search_read" -> OdooModel_search_read(out)
      [] OTHER -> OdooModel_method_call(out)

\* handles[i].<op>(...): the payload goes through _make_request, the
\* operation makes its outcome of what comes back
Operation(i, op, args, kwargs) ==
    \E reply \in RequestReplies :
       \E result \in (IF reply = "result" THEN JsonResults ELSE {JNull}),
          u \in UidsAfter(heap) :
            LET payload == [model |-> handles[i].model, method |-> op, args |-> args,
                            kwargs |-> kwargs]
                r == OdooAPI_make_request(heap, payload, reply, u, result, has_TimeoutError)
            IN /\ heap' = r.heap
               /\ last' = [op |-> op, handle |-> i, reply |-> reply, result |-> result,
                           sent |-> r.sent, out |-> OdooModel_outcome(op, r.out)]
               /\ UNCHANGED <<cmdVars, handles, recs, field_cache, sessVars>>

\* handle = api.env(model) of an OdooAPI
ModelEnv ==
    /\ ~UsesOdoo
    /\ Env

Create ==
    /\ Ready
    /\ \E i \in 1..Len(handles), values \in ValueDicts :
         Operation(i, "create", <<values>>, EmptyDict)

Search ==
    /\ Ready
    /\ \E i \in 1..Len(handles) :
         Operation(i, "search", <<>>, SearchKwargs)

Write ==
    /\ Ready
    /\ \E i \in 1..Len(handles), values \in ValueDicts :
         Operation(i, "write", <<RecordIds, values>>, EmptyDict)

Unlink ==
    /\ Ready
    /\ \E i \in 1..Len(handles) :
         Operation(i, "unlink", <<RecordIds>>, EmptyDict)

Read ==
    /\ Ready
    /\ \E i \in 1..Len(handles) :
         Operation(i, "read", <<RecordIds>>, ReadKwargs)

SearchRead ==
    /\ Ready
    /\ \E i \in 1..Len(handles) :
         Operation(i, "search_read", <<>>, ReadKwargs)

MethodCall ==
    /\ Ready
    /\ \E i \in 1..Len(handles) :
         Operation(i, "action_archive", <<RecordIds>>,
                   [k \in {"context"} |-> heap[handles[i].context]])

NextModel ==
    \/ ModelEnv
    \/ Create
    \/ Search
    \/ Write
    \/ Unlink
    \/ Read
    \/ SearchRead
    \/ MethodCall
    \/ NextStatement

SpecModel == InitModel /\ [][NextModel]_vars


(***************************************************************************)
(* odoo_connect and odoo_connector: the data calls of the Odoo object      *)
(***************************************************************************)
OdooRpcReplies == {"result", "noresult", "error", "bad_body", "http_error", "url_error"}

\* a json_rpc that takes an empty result for no result
Odoo_json_rpc_or_none(obj, reply, result) ==
    CASE obj.uid = None -> RaiseWith("Exception: User is not authenticated", NoResponse)
      [] reply \in {"http_error", "url_error"} -> RaiseWith("ConnectionError", NoResponse)
      [] reply = "bad_body" -> RaiseWith("JSONDecodeError", NoResponse)
      [] reply = "error" -> RaiseWith("ValueError", SERVER_ERROR_OBJECT)
      [] reply = "noresult" -> Return(JNull)
      [] OTHER -> Return(IF Falsy(result) THEN JNull ELSE result)

\* Odoo.json_rpc(method, params): the outcome for the reply of the server
Odoo_json_rpc(obj, reply, result) ==
    CASE obj.uid = None -> RaiseWith("Exception: User is not authenticated", NoResponse)
      [] reply \in {"http_error", "url_error"} -> RaiseWith("ConnectionError", NoResponse)
      [] reply = "bad_body" -> RaiseWith("JSONDecodeError", NoResponse)
      [] reply = "error" -> RaiseWith("ValueError", SERVER_ERROR_OBJECT)
      [] reply = "noresult" -> Return(JNull)
      [] OTHER -> Return(result)

\* Odoo.call(service, method, *args): the params handed to json_rpc
Odoo_call_params(obj, service, method, args) ==
    [service |-> service, method |-> method, args |-> <<"db", obj.uid, "password">> \o args]

\* the request of a json_rpc and the reply to it
RpcExchange(params, reply, result) ==
    [to |-> "jsonrpc", sid |-> Opener, reply |-> reply, uid |-> None,
     params |-> params, result |-> result]

\* odoo = Odoo(url, db, username, password): the constructor has logged in
InitOdoo ==
    /\ cmd_call = NoCall
    /\ cmd_result = <<>>
    /\ heap \in {<<[uid |-> u]>> : u \in ServerUids}
    /\ session_id = Opener
    /\ NoObjects
    /\ last_validation = 0
    /\ now = 0
    /\ frame = Idle
    /\ xlog = <<>>
    /\ done = NoDone
    /\ has_TimeoutError = FALSE

\* one data call of the Odoo object: json_rpc("call", params) and its outcome;
\* without a uid nothing is sent
OdooOperation(op, service, method, args) ==
    \E reply \in (IF heap[ODOO].uid = None THEN {"noresult"} ELSE OdooRpcReplies) :
       \E result \in (IF reply = "result" THEN JsonResults ELSE {JNull}) :
          /\ xlog' = IF heap[ODOO].uid = None THEN <<>>
                     ELSE <<RpcExchange(Odoo_call_params(heap[ODOO], service, method, args),
                                        reply, result)>>
          /\ done' = [op |-> op, out |-> Odoo_json_rpc(heap[ODOO], reply, result)]
          /\ UNCHANGED <<cmdVars, heap, objVars, session_id, last_validation, now, frame,
                         has_TimeoutError>>

OdooCreate ==
    /\ SessionReady /\ UsesOdoo
    /\ \E values \in ValueDicts :
         OdooOperation("create", "object", "execute", <<RECORD_MODEL, "create", values>>)

OdooSearch ==
    /\ SessionReady /\ UsesOdoo
    /\ OdooOperation("search", "object", "execute", <<RECORD_MODEL, "search", <<>>, 0, 100>>)

OdooRead ==
    /\ SessionReady /\ UsesOdoo
    /\ OdooOperation("read", "object", "execute",
                     <<RECORD_MODEL, "read", RecordIds, Fields>>)

OdooWrite ==
    /\ SessionReady /\ UsesOdoo
    /\ \E values \in ValueDicts :
         OdooOperation("write", "object", "execute",
                       <<RECORD_MODEL, "write", RecordIds, values>>)

OdooUnlink ==
    /\ SessionReady /\ UsesOdoo
    /\ OdooOperation("unlink", "object", "execute", <<RECORD_MODEL, "unlink", RecordIds>>)

OdooExecuteFunction ==
    /\ SessionReady /\ UsesOdoo
    /\ OdooOperation("execute_function", "object", "execute_kw",
                     <<RECORD_MODEL, "action_archive", <<RecordIds>>, EmptyDict>>)

NextOdoo ==
    \/ OdooLogin
    \/ OdooCreate
    \/ OdooSearch
    \/ OdooRead
    \/ OdooWrite
    \/ OdooUnlink
    \/ OdooExecuteFunction
    \/ SessionReturn

SpecOdoo == InitOdoo /\ [][NextOdoo]_vars

\* a program on either library: model handles of an OdooAPI, or an Odoo object
InitOps == InitModel \/ InitOdoo

NextOps ==
    \/ NextModel
    \/ NextOdoo

SpecOps == InitOps /\ [][NextOps]_vars


(***************************************************************************)
(* odoo.py: two threads that share one OdooAPI.  Each runs _make_request;  *)
(* the session id, the context and the validation time are the object's,   *)
(* the place a call is at and the time it read are the thread's own.  A     *)
(* thread runs from one exchange with the server to its next; the other    *)
(* thread may run while a reply is awaited.  The session id the object     *)
(* starts with is stale: the server knows no user for it.                  *)
(***************************************************************************)
Callers == {1, 2}

\* what the server answers to a ping under session id sid
StalePingReplies(sid) == IF sid = OldSession THEN PingReplies \ {"uid"} ELSE PingReplies

\* an exchange and the thread that made it; the log of the threads keeps the
\* logins of the calls in progress and the exchange that was answered last
ExchangeBy(c, to, reply) == [to |-> to, by |-> c, reply |-> reply]
IsLogin(x) == x.to = "login"
Logged(log, x) == Append(SelectSeq(log, IsLogin), x)

InitRace ==
    /\ cmd_call = NoCall
    /\ cmd_result = <<>>
    /\ heap = <<DefaultContext>>
    /\ NoObjects
    /\ session_id = OldSession
    /\ last_validation = 0
    /\ now = 2 * validation_interval
    /\ frame = [c \in Callers |-> Idle]
    /\ xlog = <<>>
    /\ done = [c \in Callers |-> NoDone]
    /\ has_TimeoutError \in BOOLEAN

\* thread c calls api._make_request(endpoint, payload)
ThreadMakeRequest ==
    /\ UNCHANGED <<cmdVars, heap, objVars, session_id, last_validation, now, xlog,
                   has_TimeoutError>>
    /\ \E c \in Callers :
         /\ frame[c] = Idle
         /\ done[c] = NoDone
         /\ LET r == EnterMakeRequest(session_id, last_validation, now)
            IN /\ frame' = [frame EXCEPT ![c] = r.frame]
               /\ done' = [done EXCEPT ![c] = r.done]

\* the reply to the ping of thread c
ThreadPingReply ==
    /\ UNCHANGED <<cmdVars, objVars, session_id, now, has_TimeoutError>>
    /\ \E c \in Callers :
         /\ frame[c].stage = "ping"
         /\ \E reply \in StalePingReplies(session_id) :
              \E u \in ReportedUids(reply) :
                 LET v == OdooAPI_validate_reply(heap, last_validation, frame[c].t,
                                                 PingResponse(reply, u))
                     r == IF v.out.kind = "raise"
                          THEN Propagates(frame[c].at, v.out.error)
                          ELSE AfterValidate(frame[c].at, v.out.value, session_id,
                                             v.last_validation, now)
                 IN /\ xlog' = Logged(xlog, ExchangeBy(c, "ping", reply))
                    /\ heap' = v.heap
                    /\ last_validation' = v.last_validation
                    /\ frame' = [frame EXCEPT ![c] = r.frame]
                    /\ done' = [done EXCEPT ![c] = r.done]

\* the reply to the login of thread c
ThreadLoginReply ==
    /\ UNCHANGED <<cmdVars, objVars, last_validation, now, has_TimeoutError>>
    /\ \E c \in Callers :
         /\ frame[c].stage = "login"
         /\ \E reply \in LoginReplies :
              \E u \in ReportedUids(reply) :
                 LET k == OdooAPI_connect_reply(heap, session_id, LoginResponse(reply, u))
                     r == IF k.out.kind = "raise"
                          THEN Propagates(frame[c].at, k.out.error)
                          ELSE AfterConnect(frame[c].at, k.out.value)
                 IN /\ xlog' = Logged(xlog, ExchangeBy(c, "login", reply))
                    /\ session_id' = k.session_id
                    /\ heap' = k.heap
                    /\ frame' = [frame EXCEPT ![c] = r.frame]
                    /\ done' = [done EXCEPT ![c] = r.done]

\* the reply to a post of thread c
ThreadPostReply ==
    /\ UNCHANGED <<cmdVars, heap, objVars, session_id, last_validation, now,
                   has_TimeoutError>>
    /\ \E c \in Callers :
         /\ frame[c].stage = "post"
         /\ \E reply \in PostReplies :
              LET r == IF frame[c].at = "mr"
                       THEN AfterPost(reply, session_id, last_validation, now)
                       ELSE AfterRepost(reply)
              IN /\ xlog' = Logged(xlog, ExchangeBy(c, "post", reply))
                 /\ frame' = [frame EXCEPT ![c] = r.frame]
                 /\ done' = [done EXCEPT ![c] = r.done]

\* the calls in progress are over and the threads go on
ThreadsReturn ==
    /\ \A c \in Callers : frame[c] = Idle
    /\ \E c \in Callers : done[c] # NoDone
    /\ done' = [c \in Callers |-> NoDone]
    /\ xlog' = <<>>
    /\ UNCHANGED <<cmdVars, heap, objVars, session_id, last_validation, now, frame,
                   has_TimeoutError>>

NextRace ==
    \/ ThreadMakeRequest
    \/ ThreadPingReply
    \/ ThreadLoginReply
    \/ ThreadPostReply
    \/ ThreadsReturn

SpecRace == InitRace /\ [][NextRace]_vars


(***************************************************************************)
(* odoo.py: OdooAPI(...) and connect_odoo(...).  A call runs from the      *)
(* constructor to its return; the server's replies to the ping and to the  *)
(* login it may send are its inputs.                                       *)
(***************************************************************************)
\* a URL: what precedes its trailing slashes, and how many there are
Url(base, slashes) == [base |-> base, slashes |-> slashes]
Urls == {Url("", 0), Url("", 1), Url("http://odoo", 0), Url("http://odoo", 1)}
\* `not url`, and url.rstrip('/')
EmptyUrl(url) == url = Url("", 0)
RStripSlash(url) == Url(url.base, 0)

\* db, username, password and session_id: None, the empty string or a value
Given(x) == x \notin {None, ""}
Credentials == [db : {None, "db"}, username : {None, "", "admin"},
                password : {None, "secret"}]
SessionIds == {None, "", OldSession}

\* a constructor that asks only for the URL
OdooAPI_init_any_parameters(url, cr, sid, client_ok) ==
    CASE EmptyUrl(url) -> [out |-> Raise("OdooValidationError")]
      [] ~client_ok -> [out |-> Raise("OdooConnectionError")]
      [] OTHER -> [out |-> Return(None), url |-> RStripSlash(url), session_id |-> sid,
                   context |-> DefaultContext, last_validation |-> 0]

\* OdooAPI.__init__: the two checks of the parameters, the attributes and the
\* HTTP client, whose construction may fail
OdooAPI_init(url, cr, sid, client_ok) ==
    CASE EmptyUrl(url) -> [out |-> Raise("OdooValidationError")]
      [] ~(Given(sid) \/ (Given(cr.db) /\ Given(cr.username) /\ Given(cr.password))) ->
           [out |-> Raise("OdooValidationError")]
      [] ~client_ok -> [out |-> Raise("OdooConnectionError")]
      [] OTHER -> [out |-> Return(None), url |-> RStripSlash(url), session_id |-> sid,
                   context |-> DefaultContext, last_validation |-> 0]

\* OdooAPI.connect() as one call: the ping of validate_session when there is
\* a session id, then the login
OdooAPI_connect(h, sid, lv, t, ping, pu, login, lu) ==
    LET entry == IF Given(sid) THEN ValidateEntry(sid, lv, t) ELSE "false"
        v == IF entry = "ping"
             THEN OdooAPI_validate_reply(h, lv, t, PingResponse(ping, pu))
             ELSE [heap |-> h, last_validation |-> lv, out |-> Return(entry = "true")]
        pings == IF entry = "ping" THEN <<Exchange("ping", sid, ping, pu)>> ELSE <<>>
        c == OdooAPI_connect_reply(v.heap, sid, LoginResponse(login, lu))
    IN IF v.out.kind = "raise" \/ v.out = Return(TRUE)
       THEN [heap |-> v.heap, session_id |-> sid, last_validation |-> v.last_validation,
             xlog |-> pings, out |-> v.out]
       ELSE [heap |-> c.heap, session_id |-> c.session_id,
             last_validation |-> v.last_validation,
             xlog |-> pings \o <<Exchange("login", None, login, lu)>>, out |-> c.out]

\* what connect_odoo returns: the api (or None) and a session id (or None)
ReturnPair(api, sid) == [kind |-> "return", api |-> api, session_id |-> sid]
API == "api"

\* the except clause of connect_odoo
ConnectOdooExcept(x) ==
    IF x.error \in OdooExceptions THEN ReturnPair(None, None) ELSE x

\* connect_odoo(url, db, username, password, session_id)
connect_odoo(url, cr, sid, client_ok, t, ping, pu, login, lu) ==
    LET api == OdooAPI_init(url, cr, sid, client_ok)
        c == OdooAPI_connect(<<api.context>>, api.session_id, api.last_validation, t,
                             ping, pu, login, lu)
    IN IF api.out.kind = "raise"
       THEN [built |-> FALSE, xlog |-> <<>>, out |-> ConnectOdooExcept(api.out)]
       ELSE [built |-> TRUE, heap |-> c.heap, session_id |-> c.session_id,
             last_validation |-> c.last_validation, xlog |-> c.xlog,
             out |-> CASE c.out.kind = "raise" -> ConnectOdooExcept(c.out)
                       [] c.out = Return(TRUE) -> ReturnPair(API, c.session_id)
                       [] OTHER -> ConnectOdooExcept(Raise("OdooAuthenticationError"))]

\* no OdooAPI has been constructed
InitConnect ==
    /\ cmd_call = NoCall
    /\ cmd_result = <<>>
    /\ heap = <<DefaultContext>>
    /\ NoObjects
    /\ session_id = None
    /\ last_validation = 0
    /\ now = 2 * validation_interval
    /\ frame = Idle
    /\ xlog = <<>>
    /\ done = NoDone
    /\ has_TimeoutError \in BOOLEAN

\* api = OdooAPI(url, db, username, password, session_id)
NewOdooAPI ==
    /\ SessionReady
    /\ \E url \in Urls, cr \in Credentials, sid \in SessionIds, client_ok \in BOOLEAN :
         LET api == OdooAPI_init(url, cr, sid, client_ok)
             built == api.out.kind = "return"
         IN /\ heap' = IF built THEN <<api.context>> ELSE heap
            /\ session_id' = IF built THEN api.session_id ELSE session_id
            /\ last_validation' = IF built THEN api.last_validation ELSE last_validation
            /\ xlog' = <<>>
            /\ done' = [op |-> "OdooAPI", url |-> url, cr |-> cr, sid |-> sid,
                        client_ok |-> client_ok, out |-> api.out]
    /\ UNCHANGED <<cmdVars, objVars, now, frame, has_TimeoutError>>

\* api, session_id = connect_odoo(url, db, username, password, session_id)
ConnectOdoo ==
    /\ SessionReady
    /\ \E url \in Urls, cr \in Credentials, sid \in SessionIds, client_ok \in BOOLEAN,
          ping \in PingReplies, login \in LoginReplies :
         \E pu \in ReportedUids(ping), lu \in ReportedUids(login) :
            LET r == connect_odoo(url, cr, sid, client_ok, now, ping, pu, login, lu)
            IN /\ heap' = IF r.built THEN r.heap ELSE heap
               /\ session_id' = IF r.built THEN r.session_id ELSE session_id
               /\ last_validation' = IF r.built THEN r.last_validation
                                                ELSE last_validation
               /\ xlog' = r.xlog
               /\ done' = [op |-> "connect_odoo", url |-> url, cr |-> cr, sid |-> sid,
                           client_ok |-> client_ok, out |-> r.out]
    /\ UNCHANGED <<cmdVars, objVars, now, frame, has_TimeoutError>>

\* the caller drops the object and goes on
ConnectReturn ==
    /\ done # NoDone
    /\ done' = NoDone
    /\ xlog' = <<>>
    /\ heap' = <<DefaultContext>>
    /\ session_id' = None
    /\ last_validation' = 0
    /\ UNCHANGED <<cmdVars, objVars, now, frame, has_TimeoutError>>

NextConnect ==
    \/ NewOdooAPI
    \/ ConnectOdoo
    \/ ConnectReturn

SpecConnect == InitConnect /\ [][NextConnect]_vars


(***************************************************************************)
(* odoo.py: the httpx.Client of an OdooAPI.  The constructor opens it and  *)
(* __del__ closes it; the interpreter runs __del__ when it collects the    *)
(* object, at some time after the last reference to it is gone.            *)
(*   frame.stage "scope":   the caller holds the OdooAPI                   *)
(*   frame.stage "dropped": the caller's scope is left, by return or by an *)
(*                          exception, and the object awaits collection    *)
(*   frame.stage "gone":    the object was collected                       *)
(***************************************************************************)
CLIENT == 2

Client(closed) == [closed |-> closed]
Lives(stage) == [stage |-> stage]

\* OdooAPI.__del__: self._client.close()
OdooAPI_del(h) == [h EXCEPT ![CLIENT] = Client(TRUE)]

InitClient == InitConnect

\* api = OdooAPI(url, db, username, password): the constructor opens the client
ClientNew ==
    /\ frame.stage \in {"idle", "gone"}
    /\ done = NoDone
    /\ heap' = <<DefaultContext, Client(FALSE)>>
    /\ frame' = Lives("scope")
    /\ UNCHANGED <<cmdVars, objVars, session_id, last_validation, now, xlog, done,
                   has_TimeoutError>>

\* a call on the OdooAPI in the caller's scope, which returns or raises
ClientCall ==
    /\ frame.stage = "scope"
    /\ done = NoDone
    /\ ~heap[CLIENT].closed
    /\ \E reply \in RequestReplies :
         \E result \in (IF reply = "result" THEN JsonResults ELSE {JNull}),
            u \in UidsAfter(heap) :
              LET payload == [model |-> RECORD_MODEL, method |-> "read",
                              args |-> <<RecordIds>>, kwargs |-> EmptyDict]
                  r == OdooAPI_make_request(heap, payload, reply, u, result,
                                            has_TimeoutError)
              IN /\ heap' = r.heap
                 /\ done' = [op |-> "make_request", out |-> r.out]
    /\ UNCHANGED <<cmdVars, objVars, session_id, last_validation, now, frame, xlog,
                   has_TimeoutError>>

\* the caller handles what the call gave and goes on in the same scope
ClientGoOn ==
    /\ frame.stage = "scope"
    /\ done # NoDone
    /\ done' = NoDone
    /\ UNCHANGED <<cmdVars, heap, objVars, session_id, last_validation, now, frame, xlog,
                   has_TimeoutError>>

\* api.__del__() called by hand, as tests/test_odoo.py does
ClientDel ==
    /\ frame.stage = "scope"
    /\ done = NoDone
    /\ heap' = OdooAPI_del(heap)
    /\ done' = [op |-> "__del__", out |-> Return(None)]
    /\ UNCHANGED <<cmdVars, objVars, session_id, last_validation, now, frame, xlog,
                   has_TimeoutError>>

\* the scope that holds the OdooAPI is left: its code returned, or the
\* exception of the last call propagates out of it
ClientLeave ==
    /\ frame.stage = "scope"
    /\ frame' = Lives("dropped")
    /\ UNCHANGED <<cmdVars, heap, objVars, session_id, last_validation, now, xlog, done,
                   has_TimeoutError>>

\* the interpreter collects the object and runs __del__
ClientCollect ==
    /\ frame.stage = "dropped"
    /\ heap' = OdooAPI_del(heap)
    /\ frame' = Lives("gone")
    /\ done' = NoDone
    /\ UNCHANGED <<cmdVars, objVars, session_id, last_validation, now, xlog,
                   has_TimeoutError>>

NextClient ==
    \/ ClientNew
    \/ ClientCall
    \/ ClientGoOn
    \/ ClientDel
    \/ ClientLeave
    \/ ClientCollect

SpecClient == InitClient /\ [][NextClient]_vars


\* -- the claims --

(***************************************************************************)
(* Claims of the Command encoder                                           *)
(***************************************************************************)

(***************************************************************************)
(* C8: every Command classmethod returns its fixed triple: create(v) =     *)
(* (0,0,v), update(i,v) = (1,i,v), delete(i) = (2,i,0), unlink(i) =        *)
(* (3,i,0), link(i) = (4,i,0), clear() = (5,0,0), set(L) = (6,0,L); the    *)
(* operation code is the first component, the seven codes are pairwise     *)
(* distinct, and the result has exactly three components.                  *)
(***************************************************************************)
C8_CommandShape ==
    /\ Cardinality({CREATE, UPDATE, DELETE, UNLINK, LINK, CLEAR, SET}) = 7
    /\ cmd_call.op # "none" =>
        /\ Len(cmd_result) = 3
        /\ cmd_result[1] =
             CASE cmd_call.op = "create" -> 0
               [] cmd_call.op = "update" -> 1
               [] cmd_call.op = "delete" -> 2
               [] cmd_call.op = "unlink" -> 3
               [] cmd_call.op = "link"   -> 4
               [] cmd_call.op = "clear"  -> 5
               [] cmd_call.op = "set"    -> 6
        /\ cmd_result[2] =
             (IF cmd_call.op \in {"update", "delete", "unlink", "link"}
                THEN cmd_call.id ELSE 0)
        /\ cmd_call.op \in {"create", "update"} => cmd_result[3] = cmd_call.values
        /\ cmd_call.op = "set" => cmd_result[3] = cmd_call.ids
        /\ cmd_call.op \in {"delete", "unlink", "link", "clear"} => cmd_result[3] = 0

C8_Witness ==
    /\ cmd_call.op = "set"
    /\ cmd_call.ids = <<1, 2, 3>>
    /\ cmd_result = <<6, 0, <<1, 2, 3>>>>

(***************************************************************************)
(* C1: the context carried in the kwargs of the payload that is sent       *)
(* equals the Session default context D overwritten by the handle's        *)
(* overrides H overwritten by the call-site context C, key by key.         *)
(* Stated for the generic call through OdooModel and                       *)
(* OdooAPI._make_request.                                                  *)
(***************************************************************************)
CallSiteContext(kwargs) ==
    IF "context" \in DOMAIN kwargs THEN kwargs["context"] ELSE EmptyDict

C1_ContextLayering ==
    (last.op = "call" /\ last.sent # <<>>) =>
        last.sent[1].kwargs["context"] =
            DictUpdate(DictUpdate(heap[API_CONTEXT], handles[last.handle].overrides),
                       CallSiteContext(last.kwargs))

(***************************************************************************)
(* C9: with_context(dict, **kw) returns a new handle of the same model     *)
(* whose context is the original handle's context overlaid by the dict     *)
(* and then by the keyword arguments; it leaves the original handle's      *)
(* context and the Session default context as they were; and no later      *)
(* operation on any handle changes the context another handle was created  *)
(* with.                                                                   *)
(***************************************************************************)
C9_WithContextCopies ==
    /\ \A i \in 1..Len(handles) : HandleContext(i) = handles[i].born
    /\ \A i \in 1..Len(handles) : \A j \in 1..Len(handles) :
          i # j => handles[i].context # handles[j].context
    /\ \A i \in 1..Len(handles) : handles[i].context # API_CONTEXT
    /\ last.op = "with_context" =>
          /\ HandleContext(last.new) =
                DictUpdate(DictUpdate(last.handle_before,
                              IF last.posarg.kind = "dict" THEN last.posarg.d ELSE EmptyDict),
                           last.kwargs)
          /\ handles[last.new].model = handles[last.handle].model
          /\ HandleContext(last.handle) = last.handle_before
          /\ heap[API_CONTEXT] = last.api_before

\* a handle derived with overrides in both forms was used after its parent was
C9_Witness ==
    /\ last.op = "call"
    /\ last.sent # <<>>
    /\ handles[last.handle].parent # 0
    /\ HandleContext(last.handle)["lang"] = "fr_FR"
    /\ HandleContext(last.handle)["tz"] = "UTC"
    /\ HandleContext(handles[last.handle].parent)["lang"] = "en_US"
    /\ HandleContext(handles[last.handle].parent)["tz"] = "Asia/Riyadh"
    /\ heap[API_CONTEXT]["uid"] = ServerUid


(***************************************************************************)
(* Record proxies: the field cache                                         *)
(***************************************************************************)
\* a read that came right after a returned statement on the same proxy and name
ReadAfter(op) == last.op = "read" /\ last.follows.op = op

\* C2 as stated: reading the same field twice on one Record Proxy with no
\* write in between issues exactly one RPC in total; the second read issues
\* no RPC and returns the same value as the first.
C2_ReadTwiceOneRpc ==
    (ReadAfter("read") /\ last.name \in Fields)
        => /\ last.rpcs = <<>>
           /\ last.out = last.follows.out
           /\ last.follows.rpcs > 0 => last.follows.rpcs = 1

\* the RPCs of a read that ask the server for field values
ValueRequests(rpcs) ==
    {k \in 1..Len(rpcs) : rpcs[k].method \in {"read", "search_read"}}

\* C2 as amended: a read of a field asks the server for values at most once
\* (a RecordProxy first asks fields_get for the field's metadata); when a
\* read left the field in the value
\* cache, the next read of the same field on the same proxy, no write in
\* between, issues no RPC and returns the same value.
C2_CachedReadIdempotent ==
    (last.op = "read" /\ last.name \in Fields)
        => /\ Cardinality(ValueRequests(last.rpcs)) <= 1
           /\ Len(last.rpcs) <= (IF recs[last.rec].cls = "RecordProxy" THEN 2 ELSE 1)
           /\ (last.follows.op = "read" /\ last.follows.cached)
                 => (last.rpcs = <<>> /\ last.out = last.follows.out)

\* a second read of a field whose first read fetched it from the server
C2_Witness ==
    /\ ReadAfter("read")
    /\ last.name \in Fields
    /\ last.follows.cached
    /\ last.follows.rpcs > 0
    /\ last.out.kind = "value"
    /\ last.out.value \in FieldValues

\* C3: after an attribute write set(name, value) on a Record Proxy returned,
\* the next read of name on the same proxy returns value and issues no RPC.
C3_WriteThenRead ==
    ReadAfter("set") => (last.rpcs = <<>> /\ last.out = Value(last.follows.value))

\* a read right after an attribute write on a RecordProxy
C3_Witness ==
    /\ ReadAfter("set")
    /\ recs[last.rec].cls = "RecordProxy"
    /\ last.out.kind = "value"

\* C5: after write(values) returned true on a Record Proxy, reading a field
\* named in values on the same proxy returns the written value with no RPC,
\* also when an older value was cached.
C5_WriteThroughProxy ==
    (ReadAfter("write") /\ last.follows.ok)
        => (last.rpcs = <<>> /\ last.out = Value(last.follows.value))

\* C10: with_context on a Record Proxy gives a new proxy with its own value
\* cache, loaded set and context: every statement on one proxy leaves the
\* value cache, loaded set and context of every other proxy as they were.
C10_IndependentProxies ==
    /\ \A i, j \in 1..Len(recs) :
          i # j => /\ recs[i].values # recs[j].values
                   /\ recs[i].context # recs[j].context
                   /\ recs[i].loaded # 0 => recs[i].loaded # recs[j].loaded
    /\ ~Ready => \A j \in DOMAIN last.before : ViewOf(heap, recs[j]) = last.before[j]

\* an attribute write on one of two proxies related by with_context, the
\* other holding a cached value of the same field that is not the one written
C10_Witness ==
    /\ last.op = "set"
    /\ last.out.kind = "return"
    /\ \E j \in DOMAIN last.before :
          /\ recs[j].parent = last.rec \/ recs[last.rec].parent = j
          /\ last.name \in DOMAIN heap[recs[j].values]
          /\ heap[recs[j].values][last.name] # last.value


(***************************************************************************)
(* Record proxies: remote method calls                                     *)
(***************************************************************************)
\* the callable a proxy returned for a method name was called
Called == last.op = "call" /\ last.called

\* it was called with one positional dictionary
CalledWithDict == Called /\ Len(last.args) = 1 /\ last.args[1].kind = "dict"

\* the request of the call itself, after those of the attribute lookup
CallRpcs == SubSeq(last.rpcs, last.lookup + 1, Len(last.rpcs))

C7_RejectsPositionals ==
    (Called /\ Len(last.args) >= 1
            /\ (Len(last.args) > 1 \/ last.args[1].kind # "dict"))
        => /\ last.out.kind = "raise"
           /\ last.out.error \in {"ValueError", "OdooValidationError"}
           /\ CallRpcs = <<>>


(***************************************************************************)
(* The session: reconnection                                               *)
(***************************************************************************)
\* the server rejected the session id an exchange presented
Rejected(e) ==
    \/ e.to = "ping" /\ e.reply \in {"no_uid", "non200"}
    \/ e.to = "post" /\ e.reply = "status_error"

\* the server accepted what an exchange presented
Accepted(e) == e.reply \in {"uid", "ok"}

\* the logins of the call
Logins == {k \in 1..Len(xlog) : xlog[k].to = "login"}

\* the server rejected the session id once and accepted everything after
RejectedOnce ==
    /\ xlog # <<>>
    /\ Rejected(xlog[1])
    /\ \A k \in 2..Len(xlog) : Accepted(xlog[k])

\* the server rejected the session id twice in a row
RejectedTwice ==
    /\ Len(xlog) >= 2
    /\ Rejected(xlog[1])
    /\ Rejected(xlog[2])

\* C4: a _make_request on a Session whose session id the server rejects once
\* and then accepts succeeds, after one re-authenticate (here: after no more
\* than one login); when the server rejects the session id twice in a row the
\* call fails with an Authentication error.
C4_SingleRetry ==
    done.op = "make_request" =>
        /\ RejectedOnce => (done.out.kind = "return" /\ Cardinality(Logins) <= 1)
        /\ RejectedTwice => done.out = Raise("OdooAuthenticationError")


\* C11: on a RecordProxy, every field name present in the value cache
\* (values) is also present in the loaded set (loaded_fields), in every state
\* reads, attribute writes and method calls can reach.
C11_CachedIsLoaded ==
    \A i \in 1..Len(recs) :
        recs[i].cls = "RecordProxy"
            => (DOMAIN heap[recs[i].values] \cap Fields) \subseteq heap[recs[i].loaded]


\* C12: in every reachable state of an OdooAPI session the session id and the
\* authenticated uid (the uid entry of the context) are either both absent or
\* both present.
C12_SessionIdIffUid ==
    ~UsesOdoo => ((session_id = None) <=> (heap[API_CONTEXT]["uid"] = None))


(***************************************************************************)
(* The session: login, validation, requests                                *)
(***************************************************************************)
\* the authenticated uid of the session
SessionUid == IF UsesOdoo THEN heap[ODOO].uid ELSE heap[API_CONTEXT]["uid"]

\* the k-th exchange of the call is a login answered with a result carrying a uid
LoginWithUid(k) == xlog[k].to = "login" /\ xlog[k].uid # None

\* C13: after a login whose server reply is a result carrying uid u, the
\* session's authenticated uid equals u, for every u the server reports, for
\* OdooAPI.connect as for Odoo.login (the posts that follow leave it alone).
C13_LoginStoresUid ==
    \A k \in 1..Len(xlog) :
        (LoginWithUid(k) /\ \A j \in (k + 1)..Len(xlog) : xlog[j].to = "post")
            => SessionUid = xlog[k].uid

\* connect() on a session validated before: the login stored the second of
\* the uids the server reports
C13_Witness ==
    /\ ~UsesOdoo
    /\ Len(xlog) = 1
    /\ LoginWithUid(1)
    /\ xlog[1].uid # ServerUid
    /\ SessionUid = xlog[1].uid
    /\ last_validation > 0
    /\ done = [op |-> "connect", out |-> Return(TRUE)]


\* the last exchange of the call so far is a login the server accepted
LoggedIn ==
    /\ xlog # <<>>
    /\ xlog[Len(xlog)].to = "login"
    /\ xlog[Len(xlog)].reply = "ok"

\* C14: after a successful authenticate the default context of the session
\* holds every key of the server's user_context with the server's value, the
\* client-side defaults overwritten.
C14_UserContextMerged ==
    (~UsesOdoo /\ LoggedIn)
        => \A k \in DOMAIN ServerUserContext :
               heap[API_CONTEXT][k] = ServerUserContext[k]


\* the last exchange of the call is a login the server refused with an error
LoginRefused ==
    /\ xlog # <<>>
    /\ xlog[Len(xlog)].to = "login"
    /\ xlog[Len(xlog)].reply = "no_result"

\* C15: a failed authenticate raises an error that carries the server's error
\* payload and leaves the session unauthenticated: neither a session id nor
\* a uid is set afterwards, also when stale ones were held before.
C15_FailedLoginClears ==
    LoginRefused
        => /\ done.op \in {"connect", "login"}
                 => (done.out.kind = "raise"
                        /\ done.out.error = LoginFailed(SERVER_ERROR))
           /\ SessionUid = None
           /\ ~UsesOdoo => session_id = None


\* the validation interval of the last successful validation has not passed
WithinInterval == (now - last_validation) < validation_interval

\* C16: validate_session called within the validation interval of the last
\* successful validation returns true at once and exchanges nothing with the
\* server, in every reachable state of the session; nor does the validation
\* at the head of connect or _make_request ping then.
C16_FreshValidationSkipsPing ==
    [][(SessionReady /\ ~UsesOdoo /\ WithinInterval /\ now' = now)
          => /\ frame'.stage # "ping"
             /\ xlog' = <<>>
             /\ done' # NoDone
                   => (done'.op \in {"validate_session", "connect"}
                          /\ done'.out = Return(TRUE))]_vars

\* a validation answered from the timestamp, on a session that logged in
\* and was validated since
C16_Witness ==
    /\ done = [op |-> "validate_session", out |-> Return(TRUE)]
    /\ xlog = <<>>
    /\ last_validation > 0
    /\ WithinInterval
    /\ session_id = NewSession


\* this step is the server's reply to the ping of a direct validate_session()
PingAnswered == frame.stage = "ping" /\ frame.at = "vs" /\ frame'.stage = "idle"

\* C17: validate_session called outside the validation interval pings the
\* session-info endpoint and returns true exactly when the reply reports a
\* live uid, the validation timestamp and the context uid then refreshed; in
\* every other case it returns false, raises nothing, and leaves session id,
\* context uid and validation timestamp as they were.
C17_ValidateOutsideInterval ==
    [][/\ (SessionReady /\ ~UsesOdoo /\ ~WithinInterval /\ now' = now
              /\ session_id # None /\ frame'.stage # "idle" /\ frame'.at = "vs")
          => frame'.stage = "ping"
       /\ (SessionReady /\ ~WithinInterval /\ session_id = None
              /\ done' # NoDone /\ done'.op = "validate_session")
          => (done'.out = Return(FALSE) /\ xlog' = <<>>
                 /\ UNCHANGED <<session_id, heap, last_validation>>)
       /\ PingAnswered
          => IF xlog'[Len(xlog')].reply = "uid"
             THEN /\ done'.out = Return(TRUE)
                  /\ last_validation' = frame.t
                  /\ heap'[API_CONTEXT]["uid"] = xlog'[Len(xlog')].uid
                  /\ session_id' = session_id
             ELSE /\ done'.out = Return(FALSE)
                  /\ UNCHANGED <<session_id, heap, last_validation>>]_vars


\* the posts of the payload in the call
Posts == {k \in 1..Len(xlog) : xlog[k].to = "post"}

\* replies after which validate_session() and connect() return false
PingFailed == {"no_uid", "non200", "http_error"}
LoginFailedReplies == {"no_result", "non200", "http_error"}

\* this step is a reply of the server; the reply it adds to the call
Answered == Len(xlog') = Len(xlog) + 1
Answer == xlog'[Len(xlog')].reply

FirstPost == CHOOSE k \in Posts : \A j \in Posts : k <= j

\* C19: in _make_request, whenever the server answers the payload with a
\* non-success HTTP status, exactly one re-authenticate-and-resend is
\* attempted (something follows the first post: a validation, a login or the
\* second post, and there is no third), and the call raises only a Request
\* error, and only when that attempt did not succeed either.
C19_RetryOnBadStatus ==
    (done.op = "make_request" /\ Posts # {}
        /\ xlog[FirstPost].reply \in {"status_error", "other_status"})
        => /\ Len(xlog) > FirstPost
           /\ Cardinality(Posts) <= 2
           /\ Cardinality({k \in Logins : k > FirstPost}) <= 1
           /\ done.out.kind = "raise"
                 => (done.out.error = "OdooRequestError"
                        /\ xlog[Len(xlog)].reply \notin {"ok", "json_error"})


\* a _make_request is under way
InMakeRequest == frame.stage # "idle" /\ frame.at \in {"mr", "mr_cn", "re_cn", "re"}

\* C20: every invocation of _make_request terminates (returns or raises)
\* whatever the server answers: the payload is posted at most twice, the
\* re-authenticate-and-resend step happens at most once, no step is repeated
\* (the longest call has seven exchanges: two validations and a login, the
\* post, a validation and a login again, the second post).
C20_MakeRequestTerminates ==
    /\ [](/\ Cardinality(Posts) <= 2
          /\ Cardinality(Logins) <= 2
          /\ Posts # {} => Cardinality({k \in Logins : k > FirstPost}) <= 1
          /\ Len(xlog) <= 7)
    /\ InMakeRequest ~> (done.op = "make_request")

\* the longest call came to its end
C20_Witness ==
    /\ done.op = "make_request"
    /\ Len(xlog) = 7
    /\ Cardinality(Posts) = 2
    /\ Cardinality(Logins) = 2


(***************************************************************************)
(* Model handles: replies and errors                                       *)
(***************************************************************************)
\* C21: OdooModel.create(values) returns the new id when the server returns
\* a non-empty id, and fails with a Validation error (OdooValidationError)
\* when the server returns a falsy id or none.
C21_CreateIdOrValidationError ==
    (last.op = "create" /\ last.reply \in {"result", "noresult"})
        => IF last.reply = "result" /\ ~Falsy(last.result)
           THEN last.out.kind = "return" /\ last.out.value = last.result
           ELSE last.out.kind = "raise" /\ last.out.error = "OdooValidationError"


\* C22: when an attribute write set(name, value) on a Record Proxy fails (the
\* server rejects it, the transport fails, or the write reports a falsy
\* result), an error is raised and the proxy's value cache and loaded set
\* are exactly as before the write.
C22_FailedSetLeavesCache ==
    [][(Ready /\ last'.op = "set" /\ last'.failed)
          => /\ last'.out.kind = "raise"
             /\ ViewOf(heap', recs[last'.rec]).values = ViewOf(heap, recs[last'.rec]).values
             /\ ViewOf(heap', recs[last'.rec]).loaded = ViewOf(heap, recs[last'.rec]).loaded]_vars


\* the statement that has just returned was an operation of a model handle
ModelOps ==
    {"create", "search", "write", "unlink", "read", "search_read", "action_archive"}

\* C23: when the server answers a call with a JSON-RPC error object, the
\* operation fails with a Request error (OdooRequestError) whose response
\* carries that error object, for every operation of a model handle and
\* every generic method call.
C23_ErrorCarriesServerBody ==
    (last.op \in ModelOps /\ last.reply \in {"json_error", "late_json_error"})
        => /\ last.out.kind = "raise"
           /\ last.out.error = "OdooRequestError"
           /\ last.out.response = SERVER_ERROR_OBJECT


\* the data calls of the Odoo object
OdooDataCalls == {"create", "search", "read", "write", "unlink", "execute_function"}

\* the call that has just returned was answered by a reply with neither a
\* result nor an error: on a model handle, on the Odoo object
HandleNoPayload == last.op \in ModelOps /\ last.reply = "noresult"
OdooNoPayload == done.op \in OdooDataCalls /\ xlog # <<>> /\ xlog[1].reply = "noresult"

DefaultOf(op) == IF op \in {"read", "search_read"} THEN JList(0) ELSE JBool(FALSE)

MissedLookup ==
    /\ last.op = "call"
    /\ last.name \notin Fields
    /\ last.out \notin {Raise("RpcError"), Raise("TypeError")} \/ last.called

\* C25: reading an attribute name that is not a field of the model on a
\* Record Proxy never raises because of the miss: the read yields a callable,
\* and that callable dispatches a remote method of that name for this
\* record's id.
C25_MissYieldsMethod ==
    MissedLookup =>
        /\ last.called
        /\ \A k \in 1..Len(CallRpcs) :
             /\ CallRpcs[k].method = last.name
             /\ CallRpcs[k].args[1] = <<recs[last.rec].id>>


(***************************************************************************)
(* Record proxies: what they share                                         *)
(***************************************************************************)

\* the statement that has just run constructed an OdooRecord, or tried to
Constructed ==
    /\ last.op = "browse"
    /\ UsesRecords
    /\ last.rec = 0 \/ recs[last.rec].cls = "OdooRecord"

\* C26: nothing is cached across records or sessions: the RPCs issued when a
\* Record Proxy is constructed or read depend only on that proxy's own
\* history and the server.  A record under construction has no history, so
\* every construction of an OdooRecord issues the requests the first one
\* issues: it asks the server for the fields of the model, whatever other
\* records were constructed before it.
C26_NothingShared ==
    Constructed => last.rpcs # <<>>


(***************************************************************************)
(* The session shared by two threads                                       *)
(***************************************************************************)

\* thread c has had the ping of its connect() answered, and not with a user
ValidationFailed(c) ==
    /\ frame[c].stage = "ping"
    /\ frame[c].at = "mr_cn"
    /\ Len(xlog') > 0
    /\ xlog'[Len(xlog')] \in {ExchangeBy(c, "ping", r) : r \in {"no_uid", "non200",
                                                                 "http_error"}}

\* another thread's login is in flight or was answered during this call
OtherLogin(c) ==
    \E o \in Callers \ {c} :
        \/ frame[o].stage = "login"
        \/ \E k \in 1..Len(xlog) : IsLogin(xlog[k]) /\ xlog[k].by = o

\* C27: validate_session, connect and the context update are not mutually
\* exclusive: a thread in _make_request whose validation of the stale session
\* id fails sends its login although the login of the other thread is in
\* flight or has been answered, so that both threads log in.
C27_LoginNotExclusive ==
    [][\A c \in Callers :
          (ValidationFailed(c) /\ OtherLogin(c)) => frame'[c].stage = "login"]_vars

\* both threads have run _make_request at once on the stale session id, each
\* has logged in, and each call has returned its reply
C27_Witness ==
    /\ Len(xlog) >= 2
    /\ \E i, j \in 1..Len(xlog) :
         /\ xlog[i] = ExchangeBy(1, "login", "ok")
         /\ xlog[j] = ExchangeBy(2, "login", "ok")
    /\ \A c \in Callers : done[c] = [op |-> "make_request", out |-> Return("json_response")]
    /\ session_id = NewSession


(***************************************************************************)
(* connect_odoo and the constructor of OdooAPI                             *)
(***************************************************************************)

\* the connection succeeded: the last exchange of the call is a ping that
\* reported a user or a login that was answered with a result
Connected ==
    /\ xlog # <<>>
    /\ LET x == xlog[Len(xlog)]
       IN \/ x.to = "ping" /\ x.reply = "uid"
          \/ x.to = "login" /\ x.reply \in {"ok", "ok_no_cookie", "ok_no_uid"}

\* C28: connect_odoo returns (api, api.session_id) when the connection
\* succeeds and (None, None) in every failure case; it raises nothing.
C28_PairOrNothing ==
    done.op = "connect_odoo" =>
        /\ done.out.kind = "return"
        /\ done.out = IF Connected THEN ReturnPair(API, session_id)
                                   ELSE ReturnPair(None, None)


\* the parameters of the constructor that has just run are refused: the URL
\* is empty, or there is neither a session id nor the complete triple
Constructing == done.op = "OdooAPI"
MissingParameters ==
    \/ EmptyUrl(done.url)
    \/ /\ ~Given(done.sid)
       /\ ~(Given(done.cr.db) /\ Given(done.cr.username) /\ Given(done.cr.password))

\* C29 as stated: constructing an OdooAPI with an empty URL, or with neither
\* a session id nor the complete triple, fails with a Validation error before
\* any network call; with valid parameters construction succeeds and performs
\* no network call.
C29_ValidatedBeforeNetwork ==
    Constructing =>
        /\ xlog = <<>>
        /\ done.out = IF MissingParameters THEN Raise("OdooValidationError")
                                           ELSE Return(None)

\* C29 as amended: the same, but with valid parameters construction succeeds
\* only when the HTTP client can be built, and fails with a Connection error
\* otherwise, in both cases without a network call.
C29_ValidatedThenClient ==
    Constructing =>
        /\ xlog = <<>>
        /\ done.out = CASE MissingParameters -> Raise("OdooValidationError")
                        [] ~done.client_ok -> Raise("OdooConnectionError")
                        [] OTHER -> Return(None)
        /\ done.out = Return(None) => /\ session_id = done.sid
                                      /\ heap[API_CONTEXT] = DefaultContext

\* a constructor given a URL, an incomplete triple and no session id
C29_Witness ==
    /\ Constructing
    /\ ~EmptyUrl(done.url)
    /\ done.sid = None
    /\ done.cr = [db |-> "db", username |-> "", password |-> "secret"]
    /\ done.out = Raise("OdooValidationError")
    /\ xlog = <<>>


(***************************************************************************)
(* The data calls of the Odoo object                                       *)
(***************************************************************************)

\* a read, search or execute_function of the Odoo object was answered with a
\* reply that has a result
AnsweredWithResult ==
    /\ done.op \in {"read", "search", "execute_function"}
    /\ xlog # <<>>
    /\ xlog[1].to = "jsonrpc"
    /\ xlog[1].reply = "result"

\* C30: for an authenticated Odoo session, a data call (read, search,
\* execute_function) whose server reply contains a result key returns exactly
\* that result value, unmodified, for every result value.
C30_ResultUnmodified ==
    AnsweredWithResult => done.out = Return(xlog[1].result)

\* a read answered with an empty list returns the empty list
C30_Witness ==
    /\ AnsweredWithResult
    /\ done.op = "read"
    /\ heap[ODOO].uid # None
    /\ xlog[1].result = JList(0)
    /\ done.out = Return(JList(0))


(***************************************************************************)
(* The transport client of the session                                     *)
(***************************************************************************)

\* C31: the Session's transport client is closed when the Session is
\* destroyed, and it is released on every exit path, including paths on which
\* a call raised, without depending on garbage-collection timing: once the
\* scope that held the session is left, the client is closed, whether or not
\* the object has been collected yet.
C31_ClientReleased ==
    frame.stage \in {"dropped", "gone"} => heap[CLIENT].closed


\* C32: when a session cannot be established (no valid session id and the
\* login fails), every operation of a model handle - search, search_read,
\* read, create, write, unlink and any generic method call - fails with an
\* Authentication error: the kind _make_request raised is the kind the caller
\* of the operation sees.
C32_AuthenticationErrorSeen ==
    (last.op \in ModelOps /\ last.reply = "auth_error")
        => /\ last.out.kind = "raise"
           /\ last.out.error = "OdooAuthenticationError"


\* C33: a remote method call dispatched through a Record Proxy is sent to the
\* server under exactly the attribute name the caller accessed; write and
\* update stay distinct method names and neither is replaced by the other.
C33_SentUnderAccessedName ==
    (Called /\ CallRpcs # <<>>) =>
        \A k \in 1..Len(CallRpcs) : CallRpcs[k].method = last.name


(***************************************************************************)
(* Record proxies: when field values are fetched                           *)
(***************************************************************************)

\* a request for field values names only the field `name` and only the id of
\* the proxy rec
NamesOnly(rpc, rec, name) ==
    IF rec.cls = "RecordProxy"
    THEN rpc.args = <<<<rec.id>>, <<name>>>>
    ELSE /\ rpc.args = <<<<<<"id", "=", rec.id>>>>>>
         /\ rpc.kwargs["fields"] = <<name>>

\* browse (and with_context) creates a proxy without a request for field
\* values, and every request for values a read makes names only the field
\* read and only this record's id
FetchedByReadsOnly ==
    /\ last.op \in {"browse", "with_context"} => ValueRequests(last.rpcs) = {}
    /\ (last.op = "read" /\ last.name \in Fields) =>
          \A k \in ValueRequests(last.rpcs) :
             NamesOnly(last.rpcs[k], recs[last.rec], last.name)

\* C34 as stated: creating a Record Proxy through browse requests no field
\* values; a field's value is requested only at the first read of that field
\* on that proxy (a read that follows a read of the field requests nothing),
\* and that request names only that one field and only this record's id.
C34_FetchedAtFirstRead ==
    /\ FetchedByReadsOnly
    /\ (ReadAfter("read") /\ last.name \in Fields) => ValueRequests(last.rpcs) = {}

\* C34 as amended: the same, but the value is requested only at a read of
\* the field that does not find it in the value cache: the first read, or a
\* later one when no earlier read brought a value (a read that follows a read
\* which left the field in the cache requests nothing).
C34_FetchedWhenNotCached ==
    /\ FetchedByReadsOnly
    /\ (ReadAfter("read") /\ last.name \in Fields /\ last.follows.cached) =>
          ValueRequests(last.rpcs) = {}

\* the first read of a field on a proxy made by browse: one request for
\* values, which brought the value
C34_Witness ==
    /\ last.op = "read"
    /\ last.name \in Fields
    /\ last.follows.op = "other"
    /\ Cardinality(ValueRequests(last.rpcs)) = 1
    /\ last.out.kind = "value"
    /\ last.out.value \in FieldValues


(***************************************************************************)
(* OdooRecord: the field cache after a failed metadata fetch               *)
(***************************************************************************)

\* the class-level field cache holds an empty field set for the model
EmptyFieldSet ==
    /\ RECORD_MODEL \in DOMAIN field_cache
    /\ field_cache[RECORD_MODEL] = {}

\* the constructor that has just run failed on its metadata fetch
FetchFailed == Constructed /\ last.out = Raise("OdooValidationError")

\* the constructor raises a Validation error and records the empty field
\* set; every OdooRecord constructed afterwards fetches no metadata and is
\* constructed
EmptyFieldSetStays ==
    /\ FetchFailed => EmptyFieldSet
    /\ (EmptyFieldSet /\ ~FetchFailed /\ last.op \in {"browse", "with_context"}) =>
          (last.rpcs = <<>> /\ last.out.kind = "return")

\* C35 as stated: when fetching the field metadata of a model fails with an
\* Odoo exception, the constructor raises a Validation error and records an
\* empty field set for the model in the class-level field cache; every
\* OdooRecord for the model constructed afterwards performs no metadata
\* fetch, constructs successfully and treats every attribute name as a remote
\* method, never as a field.
C35_EveryNameAMethod ==
    /\ EmptyFieldSetStays
    /\ (EmptyFieldSet /\ last.op = "read") => (last.rpcs = <<>> /\ last.out = Callable)

\* C35 as amended: the same, but a name that is in the record's own value
\* cache (after an attribute write or a write) is read from it; every other
\* name is a remote method, and no read asks the server.
C35_EveryUncachedNameAMethod ==
    /\ EmptyFieldSetStays
    /\ (EmptyFieldSet /\ last.op = "read") =>
          /\ last.rpcs = <<>>
          /\ last.out = IF last.cached
                        THEN Value(heap[recs[last.rec].values][last.name])
                        ELSE Callable

\* a field name read as a method on a record built after the failed fetch
C35_Witness ==
    /\ EmptyFieldSet
    /\ last.op = "read"
    /\ last.name \in Fields
    /\ last.out = Callable
    /\ last.rpcs = <<>>


\* -- A known field the server sends no value of --

\* the read asked the server for a known field and the answer held no row for
\* the record, or a row without the field
NoValueAnswered ==
    /\ last.op = "read"
    /\ recs[last.rec].cls = "OdooRecord"
    /\ last.name \in FieldCacheGet(field_cache, RECORD_MODEL)
    /\ ValueRequests(last.rpcs) # {}
    /\ \/ last.answer.reply = "noresult"
       \/ /\ last.answer.reply = "result"
          /\ \/ last.answer.rows = <<>>
             \/ last.name \notin DOMAIN last.answer.rows[1]

\* the read follows a read of the same name on the same record that asked the
\* server and got a callable
ReadAfterNoValue ==
    /\ ReadAfter("read")
    /\ recs[last.rec].cls = "OdooRecord"
    /\ last.follows.rpcs > 0
    /\ last.follows.out = Callable

====
